------------------------------ MODULE Spec2Model ------------------------------
(***************************************************************************)
(* A model of addressutil.py: Address.parse (last-line parser, tokenizer,  *)
(* shape disambiguation), the Address constructors, equality and           *)
(* rendering.  Text is modelled by TLA+ strings; a character is a string   *)
(* of length one.                                                          *)
(***************************************************************************)
EXTENDS Integers, Sequences, FiniteSets, TLC

(***************************************************************************)
(* Reference tables, copied from the source.                               *)
(***************************************************************************)
\* DIRECTIONS_LIST (addressutil.py:27): the 8 directions and their spelled-out variants.
DIRECTIONS_LIST ==
  {
    "N", "E", "S", "W", "NW", "NE", "SE", "SW", "NORTH", "EAST", "SOUTH", "WEST", "NORTHWEST", "NORTHEAST",
    "SOUTHEAST", "SOUTHWEST"
  }

\* DIRECTIONS_MAPPING (addressutil.py:30): spelled-out direction -> USPS code.
DIRECTIONS_MAPPING_ITEMS ==
  {
    <<"NORTH", "N">>, <<"EAST", "E">>, <<"SOUTH", "S">>, <<"WEST", "W">>, <<"NORTHWEST", "NW">>,
    <<"NORTHEAST", "NE">>, <<"SOUTHEAST", "SE">>, <<"SOUTHWEST", "SW">>
  }

DIRECTIONS_MAPPING ==
  [k \in {p[1] : p \in DIRECTIONS_MAPPING_ITEMS} |-> (CHOOSE p \in DIRECTIONS_MAPPING_ITEMS : p[1] = k)[2]]

\* SECONDARY_UNIT_INDICATORS (addressutil.py:36).
SECONDARY_UNIT_INDICATORS ==
  {
    "APARTMENT", "APT", "BASEMENT", "BSMT", "BUILDING", "BLDG", "DEPARTMENT", "DEPT", "FLOOR", "FL", "FRONT",
    "FRNT", "HANGER", "HANGAR", "HNGR", "KEY", "LOBBY", "LBBY", "LOT", "LOWER", "LOWR", "OFFICE", "OFC",
    "PENTHOUSE", "PH", "PIER", "REAR", "ROOM", "RM", "SIDE", "SPACE", "SPC", "STOP", "SUITE", "STE",
    "TRAILER", "TRLR", "UNIT", "UPPER", "UPPR"
  }

\* STREET_SUFFIXES (addressutil.py:43), entries exactly as written (some carry a trailing space).
STREET_SUFFIXES ==
  {
    "ALLEE", "ALLEY", "ALLY", "ALY", "ANEX", "ANNEX", "ANNX", "ANX", "ARC ", "ARCADE ", "AV", "AVE", "AVEN",
    "AVENU", "AVENUE", "AVN", "AVNUE", "BAYOO", "BAYOU", "BCH", "BEACH", "BEND", "BND", "BLF", "BLUF",
    "BLUFF", "BLUFFS ", "BOT", "BTM", "BOTTM", "BOTTOM", "BLVD", "BOUL", "BOULEVARD ", "BOULV", "BR",
    "BRNCH", "BRANCH", "BRDGE", "BRG", "BRIDGE", "BRK", "BROOK", "BROOKS ", "BURG", "BURGS", "BYP", "BYPA",
    "BYPAS", "BYPASS", "BYPS", "CAMP", "CP", "CMP", "CANYN", "CANYON", "CNYN", "CAPE", "CPE", "CAUSEWAY",
    "CAUSWA", "CSWY", "CEN", "CENT", "CENTER", "CENTR", "CENTRE", "CNTER", "CNTR", "CTR", "CENTERS ", "CIR",
    "CIRC", "CIRCL", "CIRCLE", "CRCL", "CRCLE", "CIRCLES", "CLF", "CLIFF", "CLFS", "CLIFFS", "CLB", "CLUB",
    "COMMON", "COMMONS", "COR", "CORNER", "CORNERS", "CORS", "COURSE", "CRSE", "COURT", "CT", "COURTS",
    "CTS", "COVE", "CV", "COVES", "CREEK", "CRK", "CRESCENT", "CRES", "CRSENT", "CRSNT", "CREST",
    "CROSSING ", "CRSSNG ", "XING ", "CROSSROAD", "CROSSROADS", "CURVE ", "DALE ", "DL ", "DAM ", "DM ",
    "DIV", "DIVIDE", "DV", "DVD", "DR", "DRIV", "DRIVE", "DRV", "DRIVES", "EST", "ESTATE", "ESTATES", "ESTS",
    "EXP", "EXPR", "EXPRESS", "EXPRESSWAY", "EXPW", "EXPY", "EXT", "EXTENSION", "EXTN", "EXTNSN", "EXTS",
    "FALL", "FALLS", "FLS", "FERRY", "FRRY", "FRY", "FIELD", "FLD", "FIELDS", "FLDS", "FLAT", "FLT", "FLATS",
    "FLTS", "FORD", "FRD", "FORDS", "FOREST", "FORESTS", "FRST", "FORG", "FORGE", "FRG", "FORGES", "FORK",
    "FRK", "FORKS", "FRKS", "FORT", "FRT", "FT", "FREEWAY", "FREEWY", "FRWAY", "FRWY", "FWY", "GARDEN",
    "GARDN", "GRDEN", "GRDN", "GARDENS", "GDNS", "GRDNS", "GATEWAY", "GATEWY", "GATWAY", "GTWAY", "GTWY",
    "GLEN", "GLN", "GLENS", "GREEN", "GRN", "GREENS", "GROV", "GROVE", "GRV", "GROVES", "HARB", "HARBOR",
    "HARBR", "HBR", "HRBOR", "HARBORS", "HAVEN", "HVN", "HT", "HTS", "HIGHWAY", "HIGHWY", "HIWAY", "HIWY",
    "HWAY", "HWY", "HILL", "HL", "HILLS", "HLS", "HLLW", "HOLLOW", "HOLLOWS", "HOLW", "HOLWS", "INLT", "IS",
    "ISLAND", "ISLND", "ISLANDS", "ISLNDS", "ISS", "ISLE", "ISLES", "JCT", "JCTION", "JCTN", "JUNCTION",
    "JUNCTN", "JUNCTON", "JCTNS", "JCTS", "JUNCTIONS", "KEY", "KY", "KEYS", "KYS", "KNL", "KNOL", "KNOLL",
    "KNLS", "KNOLLS", "LK", "LAKE", "LKS", "LAKES", "LAND", "LANDING", "LNDG", "LNDNG", "LANE", "LN", "LGT",
    "LIGHT", "LIGHTS", "LF", "LOAF", "LCK", "LOCK", "LCKS", "LOCKS", "LDG", "LDGE", "LODG", "LODGE", "LOOP",
    "LOOPS", "MALL", "MNR", "MANOR", "MANORS", "MNRS", "MEADOW", "MDW", "MDWS", "MEADOWS", "MEDOWS", "MEWS",
    "MILL", "MILLS", "MISSN", "MSSN", "MOTORWAY", "MNT", "MT", "MOUNT", "MNTAIN", "MNTN", "MOUNTAIN",
    "MOUNTIN", "MTIN", "MTN", "MNTNS", "MOUNTAINS", "NCK", "NECK", "ORCH", "ORCHARD", "ORCHRD", "OVAL",
    "OVL", "OVERPASS", "PARK", "PRK", "PARKS", "PARKWAY", "PARKWY", "PKWAY", "PKWY", "PKY", "PARKWAYS",
    "PKWYS", "PASS", "PASSAGE", "PATH", "PATHS", "PIKE", "PIKES", "PINE", "PINES", "PNES", "PL", "PLAIN",
    "PLN", "PLAINS", "PLNS", "PLAZA", "PLZ", "PLZA", "POINT", "PT", "POINTS", "PTS", "PORT", "PRT", "PORTS",
    "PRTS", "PR", "PRAIRIE", "PRR", "RAD", "RADIAL", "RADIEL", "RADL", "RAMP", "RANCH", "RANCHES", "RNCH",
    "RNCHS", "RAPID", "RPD", "RAPIDS", "RPDS", "REST", "RST", "RDG", "RDGE", "RIDGE", "RDGS", "RIDGES",
    "RIV", "RIVER", "RVR", "RIVR", "RD", "ROAD", "ROADS", "RDS", "ROUTE", "ROW", "RUE", "RUN", "SHL",
    "SHOAL", "SHLS", "SHOALS", "SHOAR", "SHORE", "SHR", "SHOARS", "SHORES", "SHRS", "SKYWAY", "SPG", "SPNG",
    "SPRING", "SPRNG", "SPGS", "SPNGS", "SPRINGS", "SPRNGS", "SPUR", "SPURS", "SQ", "SQR", "SQRE", "SQU",
    "SQUARE", "SQRS", "SQUARES", "STA", "STATION", "STATN", "STN", "STRA", "STRAV", "STRAVEN", "STRAVENUE",
    "STRAVN", "STRVN", "STRVNUE", "STREAM", "STREME", "STRM", "STREET", "STRT", "ST", "STR", "STREETS",
    "SMT", "SUMIT", "SUMITT", "SUMMIT", "TER", "TERR", "TERRACE", "THROUGHWAY", "TRACE", "TRACES", "TRCE",
    "TRACK", "TRACKS", "TRAK", "TRK", "TRKS", "TRAFFICWAY", "TRAIL", "TRAILS", "TRL", "TRLS", "TRAILER",
    "TRLR", "TRLRS", "TUNEL", "TUNL", "TUNLS", "TUNNEL", "TUNNELS", "TUNNL", "TRNPK", "TURNPIKE", "TURNPK",
    "UNDERPASS", "UN", "UNION", "UNIONS", "VALLEY", "VALLY", "VLLY", "VLY", "VALLEYS", "VLYS", "VDCT", "VIA",
    "VIADCT", "VIADUCT", "VIEW", "VW", "VIEWS", "VWS", "VILL", "VILLAG", "VILLAGE", "VILLG", "VILLIAGE",
    "VLG", "VILLAGES", "VLGS", "VILLE", "VL", "VIS", "VIST", "VISTA", "VST", "VSTA", "WALK", "WALKS", "WALL",
    "WY", "WAY", "WAYS", "WELL", "WELLS"
  }

\* STREET_SUFFIX_MAPPING (addressutil.py:46): suffix spelling -> preferred abbreviation.
STREET_SUFFIX_MAPPING_ITEMS ==
  {
    <<"ALLEE", "ALY">>, <<"ALLEY", "ALY">>, <<"ALLY", "ALY">>, <<"ALY", "ALY">>, <<"ANEX", "ANX">>,
    <<"ANNEX", "ANX">>, <<"ANNX", "ANX">>, <<"ANX", "ANX">>, <<"ARC", "ARC">>, <<"ARCADE", "ARC">>,
    <<"AV", "AVE">>, <<"AVE", "AVE">>, <<"AVEN", "AVE">>, <<"AVENU", "AVE">>, <<"AVENUE", "AVE">>,
    <<"AVN", "AVE">>, <<"AVNUE", "AVE">>, <<"BAYOO", "BYU">>, <<"BAYOU", "BYU">>, <<"BCH", "BCH">>,
    <<"BEACH", "BCH">>, <<"BEND", "BND">>, <<"BND", "BND">>, <<"BLF", "BLF">>, <<"BLUF", "BLF">>,
    <<"BLUFF", "BLF">>, <<"BLUFFS", "BLFS">>, <<"BOT", "BTM">>, <<"BTM", "BTM">>, <<"BOTTM", "BTM">>,
    <<"BOTTOM", "BTM">>, <<"BLVD", "BLVD">>, <<"BOUL", "BLVD">>, <<"BOULEVARD", "BLVD">>,
    <<"BOULV", "BLVD">>, <<"BR", "BR">>, <<"BRNCH", "BR">>, <<"BRANCH", "BR">>, <<"BRDGE", "BRG">>,
    <<"BRG", "BRG">>, <<"BRIDGE", "BRG">>, <<"BRK", "BRK">>, <<"BROOK", "BRK">>, <<"BROOKS", "BRKS">>,
    <<"BURG", "BG">>, <<"BURGS", "BGS">>, <<"BYP", "BYP">>, <<"BYPA", "BYP">>, <<"BYPAS", "BYP">>,
    <<"BYPASS", "BYP">>, <<"BYPS", "BYP">>, <<"CAMP", "CP">>, <<"CP", "CP">>, <<"CMP", "CP">>,
    <<"CANYN", "CYN">>, <<"CANYON", "CYN">>, <<"CNYN", "CYN">>, <<"CAPE", "CPE">>, <<"CPE", "CPE">>,
    <<"CAUSEWAY", "CSWY">>, <<"CAUSWA", "CSWY">>, <<"CSWY", "CSWY">>, <<"CEN", "CTR">>, <<"CENT", "CTR">>,
    <<"CENTER", "CTR">>, <<"CENTR", "CTR">>, <<"CENTRE", "CTR">>, <<"CNTER", "CTR">>, <<"CNTR", "CTR">>,
    <<"CTR", "CTR">>, <<"CENTERS", "CTRS">>, <<"CIR", "CIR">>, <<"CIRC", "CIR">>, <<"CIRCL", "CIR">>,
    <<"CIRCLE", "CIR">>, <<"CRCL", "CIR">>, <<"CRCLE", "CIR">>, <<"CIRCLES", "CIRS">>, <<"CLF", "CLF">>,
    <<"CLIFF", "CLF">>, <<"CLFS", "CLFS">>, <<"CLIFFS", "CLFS">>, <<"CLB", "CLB">>, <<"CLUB", "CLB">>,
    <<"COMMON", "CMN">>, <<"COMMONS", "CMNS">>, <<"COR", "COR">>, <<"CORNER", "COR">>, <<"CORNERS", "CORS">>,
    <<"CORS", "CORS">>, <<"COURSE", "CRSE">>, <<"CRSE", "CRSE">>, <<"COURT", "CT">>, <<"CT", "CT">>,
    <<"COURTS", "CTS">>, <<"CTS", "CTS">>, <<"COVE", "CV">>, <<"CV", "CV">>, <<"COVES", "CVS">>,
    <<"CREEK", "CRK">>, <<"CRK", "CRK">>, <<"CRESCENT", "CRES">>, <<"CRES", "CRES">>, <<"CRSENT", "CRES">>,
    <<"CRSNT", "CRES">>, <<"CREST", "CRST">>, <<"CROSSING", "XING">>, <<"CRSSNG", "XING">>,
    <<"XING", "XING">>, <<"CROSSROAD", "XRD">>, <<"CROSSROADS", "XRDS">>, <<"CURVE", "CURV">>,
    <<"DALE", "DL">>, <<"DL", "DL">>, <<"DAM", "DM">>, <<"DM", "DM">>, <<"DIV", "DV">>, <<"DIVIDE", "DV">>,
    <<"DV", "DV">>, <<"DVD", "DV">>, <<"DR", "DR">>, <<"DRIV", "DR">>, <<"DRIVE", "DR">>, <<"DRV", "DR">>,
    <<"DRIVES", "DRS">>, <<"EST", "EST">>, <<"ESTATE", "EST">>, <<"ESTATES", "ESTS">>, <<"ESTS", "ESTS">>,
    <<"EXP", "EXPY">>, <<"EXPR", "EXPY">>, <<"EXPRESS", "EXPY">>, <<"EXPRESSWAY", "EXPY">>,
    <<"EXPW", "EXPY">>, <<"EXPY", "EXPY">>, <<"EXT", "EXT">>, <<"EXTENSION", "EXT">>, <<"EXTN", "EXT">>,
    <<"EXTNSN", "EXT">>, <<"EXTS", "EXTS">>, <<"FALL", "FALL">>, <<"FALLS", "FLS">>, <<"FLS", "FLS">>,
    <<"FERRY", "FRY">>, <<"FRRY", "FRY">>, <<"FRY", "FRY">>, <<"FIELD", "FLD">>, <<"FLD", "FLD">>,
    <<"FIELDS", "FLDS">>, <<"FLDS", "FLDS">>, <<"FLAT", "FLT">>, <<"FLT", "FLT">>, <<"FLATS", "FLTS">>,
    <<"FLTS", "FLTS">>, <<"FORD", "FRD">>, <<"FRD", "FRD">>, <<"FORDS", "FRDS">>, <<"FOREST", "FRST">>,
    <<"FORESTS", "FRST">>, <<"FRST", "FRST">>, <<"FORG", "FRG">>, <<"FORGE", "FRG">>, <<"FRG", "FRG">>,
    <<"FORGES", "FRGS">>, <<"FORK", "FRK">>, <<"FRK", "FRK">>, <<"FORKS", "FRKS">>, <<"FRKS", "FRKS">>,
    <<"FORT", "FT">>, <<"FRT", "FT">>, <<"FT", "FT">>, <<"FREEWAY", "FWY">>, <<"FREEWY", "FWY">>,
    <<"FRWAY", "FWY">>, <<"FRWY", "FWY">>, <<"FWY", "FWY">>, <<"GARDEN", "GDN">>, <<"GARDN", "GDN">>,
    <<"GRDEN", "GDN">>, <<"GRDN", "GDN">>, <<"GARDENS", "GDNS">>, <<"GDNS", "GDNS">>, <<"GRDNS", "GDNS">>,
    <<"GATEWAY", "GTWY">>, <<"GATEWY", "GTWY">>, <<"GATWAY", "GTWY">>, <<"GTWAY", "GTWY">>,
    <<"GTWY", "GTWY">>, <<"GLEN", "GLN">>, <<"GLN", "GLN">>, <<"GLENS", "GLNS">>, <<"GREEN", "GRN">>,
    <<"GRN", "GRN">>, <<"GREENS", "GRNS">>, <<"GROV", "GRV">>, <<"GROVE", "GRV">>, <<"GRV", "GRV">>,
    <<"GROVES", "GRVS">>, <<"HARB", "HBR">>, <<"HARBOR", "HBR">>, <<"HARBR", "HBR">>, <<"HBR", "HBR">>,
    <<"HRBOR", "HBR">>, <<"HARBORS", "HBRS">>, <<"HAVEN", "HVN">>, <<"HVN", "HVN">>, <<"HT", "HTS">>,
    <<"HTS", "HTS">>, <<"HIGHWAY", "HWY">>, <<"HIGHWY", "HWY">>, <<"HIWAY", "HWY">>, <<"HIWY", "HWY">>,
    <<"HWAY", "HWY">>, <<"HWY", "HWY">>, <<"HILL", "HL">>, <<"HL", "HL">>, <<"HILLS", "HLS">>,
    <<"HLS", "HLS">>, <<"HLLW", "HOLW">>, <<"HOLLOW", "HOLW">>, <<"HOLLOWS", "HOLW">>, <<"HOLW", "HOLW">>,
    <<"HOLWS", "HOLW">>, <<"INLT", "INLT">>, <<"IS", "IS">>, <<"ISLAND", "IS">>, <<"ISLND", "IS">>,
    <<"ISLANDS", "ISS">>, <<"ISLNDS", "ISS">>, <<"ISS", "ISS">>, <<"ISLE", "ISLE">>, <<"ISLES", "ISLE">>,
    <<"JCT", "JCT">>, <<"JCTION", "JCT">>, <<"JCTN", "JCT">>, <<"JUNCTION", "JCT">>, <<"JUNCTN", "JCT">>,
    <<"JUNCTON", "JCT">>, <<"JCTNS", "JCTS">>, <<"JCTS", "JCTS">>, <<"JUNCTIONS", "JCTS">>, <<"KEY", "KY">>,
    <<"KY", "KY">>, <<"KEYS", "KYS">>, <<"KYS", "KYS">>, <<"KNL", "KNL">>, <<"KNOL", "KNL">>,
    <<"KNOLL", "KNL">>, <<"KNLS", "KNLS">>, <<"KNOLLS", "KNLS">>, <<"LK", "LK">>, <<"LAKE", "LK">>,
    <<"LKS", "LKS">>, <<"LAKES", "LKS">>, <<"LAND", "LAND">>, <<"LANDING", "LNDG">>, <<"LNDG", "LNDG">>,
    <<"LNDNG", "LNDG">>, <<"LANE", "LN">>, <<"LN", "LN">>, <<"LGT", "LGT">>, <<"LIGHT", "LGT">>,
    <<"LIGHTS", "LGTS">>, <<"LF", "LF">>, <<"LOAF", "LF">>, <<"LCK", "LCK">>, <<"LOCK", "LCK">>,
    <<"LCKS", "LCKS">>, <<"LOCKS", "LCKS">>, <<"LDG", "LDG">>, <<"LDGE", "LDG">>, <<"LODG", "LDG">>,
    <<"LODGE", "LDG">>, <<"LOOP", "LOOP">>, <<"LOOPS", "LOOP">>, <<"MALL", "MALL">>, <<"MNR", "MNR">>,
    <<"MANOR", "MNR">>, <<"MANORS", "MNRS">>, <<"MNRS", "MNRS">>, <<"MEADOW", "MDW">>, <<"MDW", "MDWS">>,
    <<"MDWS", "MDWS">>, <<"MEADOWS", "MDWS">>, <<"MEDOWS", "MDWS">>, <<"MEWS", "MEWS">>, <<"MILL", "ML">>,
    <<"MILLS", "MLS">>, <<"MISSN", "MSN">>, <<"MSSN", "MSN">>, <<"MOTORWAY", "MTWY">>, <<"MNT", "MT">>,
    <<"MT", "MT">>, <<"MOUNT", "MT">>, <<"MNTAIN", "MTN">>, <<"MNTN", "MTN">>, <<"MOUNTAIN", "MTN">>,
    <<"MOUNTIN", "MTN">>, <<"MTIN", "MTN">>, <<"MTN", "MTN">>, <<"MNTNS", "MTNS">>, <<"MOUNTAINS", "MTNS">>,
    <<"NCK", "NCK">>, <<"NECK", "NCK">>, <<"ORCH", "ORCH">>, <<"ORCHARD", "ORCH">>, <<"ORCHRD", "ORCH">>,
    <<"OVAL", "OVAL">>, <<"OVL", "OVAL">>, <<"OVERPASS", "OPAS">>, <<"PARK", "PARK">>, <<"PRK", "PARK">>,
    <<"PARKS", "PARK">>, <<"PARKWAY", "PKWY">>, <<"PARKWY", "PKWY">>, <<"PKWAY", "PKWY">>,
    <<"PKWY", "PKWY">>, <<"PKY", "PKWY">>, <<"PARKWAYS", "PKWY">>, <<"PKWYS", "PKWY">>, <<"PASS", "PASS">>,
    <<"PASSAGE", "PSGE">>, <<"PATH", "PATH">>, <<"PATHS", "PATH">>, <<"PIKE", "PIKE">>, <<"PIKES", "PIKE">>,
    <<"PINE", "PNE">>, <<"PINES", "PNES">>, <<"PNES", "PNES">>, <<"PL", "PL">>, <<"PLAIN", "PLN">>,
    <<"PLN", "PLN">>, <<"PLAINS", "PLNS">>, <<"PLNS", "PLNS">>, <<"PLAZA", "PLZ">>, <<"PLZ", "PLZ">>,
    <<"PLZA", "PLZ">>, <<"POINT", "PT">>, <<"PT", "PT">>, <<"POINTS", "PTS">>, <<"PTS", "PTS">>,
    <<"PORT", "PRT">>, <<"PRT", "PRT">>, <<"PORTS", "PRTS">>, <<"PRTS", "PRTS">>, <<"PR", "PR">>,
    <<"PRAIRIE", "PR">>, <<"PRR", "PR">>, <<"RAD", "RADL">>, <<"RADIAL", "RADL">>, <<"RADIEL", "RADL">>,
    <<"RADL", "RADL">>, <<"RAMP", "RAMP">>, <<"RANCH", "RNCH">>, <<"RANCHES", "RNCH">>, <<"RNCH", "RNCH">>,
    <<"RNCHS", "RNCH">>, <<"RAPID", "RPD">>, <<"RPD", "RPD">>, <<"RAPIDS", "RPDS">>, <<"RPDS", "RPDS">>,
    <<"REST", "RST">>, <<"RST", "RST">>, <<"RDG", "RDG">>, <<"RDGE", "RDG">>, <<"RIDGE", "RDG">>,
    <<"RDGS", "RDGS">>, <<"RIDGES", "RDGS">>, <<"RIV", "RIV">>, <<"RIVER", "RIV">>, <<"RVR", "RIV">>,
    <<"RIVR", "RIV">>, <<"RD", "RD">>, <<"ROAD", "RD">>, <<"ROADS", "RDS">>, <<"RDS", "RDS">>,
    <<"ROUTE", "RTE">>, <<"ROW", "ROW">>, <<"RUE", "RUE">>, <<"RUN", "RUN">>, <<"SHL", "SHL">>,
    <<"SHOAL", "SHL">>, <<"SHLS", "SHLS">>, <<"SHOALS", "SHLS">>, <<"SHOAR", "SHR">>, <<"SHORE", "SHR">>,
    <<"SHR", "SHR">>, <<"SHOARS", "SHRS">>, <<"SHORES", "SHRS">>, <<"SHRS", "SHRS">>, <<"SKYWAY", "SKWY">>,
    <<"SPG", "SPG">>, <<"SPNG", "SPG">>, <<"SPRING", "SPG">>, <<"SPRNG", "SPG">>, <<"SPGS", "SPGS">>,
    <<"SPNGS", "SPGS">>, <<"SPRINGS", "SPGS">>, <<"SPRNGS", "SPGS">>, <<"SPUR", "SPUR">>,
    <<"SPURS", "SPUR">>, <<"SQ", "SQ">>, <<"SQR", "SQ">>, <<"SQRE", "SQ">>, <<"SQU", "SQ">>,
    <<"SQUARE", "SQ">>, <<"SQRS", "SQS">>, <<"SQUARES", "SQS">>, <<"STA", "STA">>, <<"STATION", "STA">>,
    <<"STATN", "STA">>, <<"STN", "STA">>, <<"STRA", "STRA">>, <<"STRAV", "STRA">>, <<"STRAVEN", "STRA">>,
    <<"STRAVENUE", "STRA">>, <<"STRAVN", "STRA">>, <<"STRVN", "STRA">>, <<"STRVNUE", "STRA">>,
    <<"STREAM", "STRM">>, <<"STREME", "STRM">>, <<"STRM", "STRM">>, <<"STREET", "ST">>, <<"STRT", "ST">>,
    <<"ST", "ST">>, <<"STR", "ST">>, <<"STREETS", "STS">>, <<"SMT", "SMT">>, <<"SUMIT", "SMT">>,
    <<"SUMITT", "SMT">>, <<"SUMMIT", "SMT">>, <<"TER", "TER">>, <<"TERR", "TER">>, <<"TERRACE", "TER">>,
    <<"THROUGHWAY", "TRWY">>, <<"TRACE", "TRCE">>, <<"TRACES", "TRCE">>, <<"TRCE", "TRCE">>,
    <<"TRACK", "TRAK">>, <<"TRACKS", "TRAK">>, <<"TRAK", "TRAK">>, <<"TRK", "TRAK">>, <<"TRKS", "TRAK">>,
    <<"TRAFFICWAY", "TRFY">>, <<"TRAIL", "TRL">>, <<"TRAILS", "TRL">>, <<"TRL", "TRL">>, <<"TRLS", "TRL">>,
    <<"TRAILER", "TRLR">>, <<"TRLR", "TRLR">>, <<"TRLRS", "TRLR">>, <<"TUNEL", "TUNL">>, <<"TUNL", "TUNL">>,
    <<"TUNLS", "TUNL">>, <<"TUNNEL", "TUNL">>, <<"TUNNELS", "TUNL">>, <<"TUNNL", "TUNL">>,
    <<"TRNPK", "TPKE">>, <<"TURNPIKE", "TPKE">>, <<"TURNPK", "TPKE">>, <<"UNDERPASS", "UPAS">>,
    <<"UN", "UN">>, <<"UNION", "UN">>, <<"UNIONS", "UNS">>, <<"VALLEY", "VLY">>, <<"VALLY", "VLY">>,
    <<"VLLY", "VLY">>, <<"VLY", "VLY">>, <<"VALLEYS", "VLYS">>, <<"VLYS", "VLYS">>, <<"VDCT", "VIA">>,
    <<"VIA", "VIA">>, <<"VIADCT", "VIA">>, <<"VIADUCT", "VIA">>, <<"VIEW", "VW">>, <<"VW", "VW">>,
    <<"VIEWS", "VWS">>, <<"VWS", "VWS">>, <<"VILL", "VLG">>, <<"VILLAG", "VLG">>, <<"VILLAGE", "VLG">>,
    <<"VILLG", "VLG">>, <<"VILLIAGE", "VLG">>, <<"VLG", "VLG">>, <<"VILLAGES", "VLGS">>, <<"VLGS", "VLGS">>,
    <<"VILLE", "VL">>, <<"VL", "VL">>, <<"VIS", "VIS">>, <<"VIST", "VIS">>, <<"VISTA", "VIS">>,
    <<"VST", "VIS">>, <<"VSTA", "VIS">>, <<"WALK", "WALK">>, <<"WALKS", "WALK">>, <<"WALL", "WALL">>,
    <<"WY", "WAY">>, <<"WAY", "WAY">>, <<"WAYS", "WAYS">>, <<"WELL", "WL">>, <<"WELLS", "WLS">>,
    <<"WLS", "WLS">>
  }

STREET_SUFFIX_MAPPING ==
  [k \in {p[1] : p \in STREET_SUFFIX_MAPPING_ITEMS} |-> (CHOOSE p \in STREET_SUFFIX_MAPPING_ITEMS : p[1] = k)[2]]

(***************************************************************************)
(* Characters and the string primitives of Python used by the code.        *)
(***************************************************************************)
Digits == {"0", "1", "2", "3", "4", "5", "6", "7", "8", "9"}

UpperLetters ==
  {"A", "B", "C", "D", "E", "F", "G", "H", "I", "J", "K", "L", "M",
   "N", "O", "P", "Q", "R", "S", "T", "U", "V", "W", "X", "Y", "Z"}

\* lower-case letter -> upper-case letter, as str.upper() maps ASCII letters
LOWER_TO_UPPER_ITEMS ==
  {
    <<"a", "A">>, <<"b", "B">>, <<"c", "C">>, <<"d", "D">>, <<"e", "E">>, <<"f", "F">>, <<"g", "G">>,
    <<"h", "H">>, <<"i", "I">>, <<"j", "J">>, <<"k", "K">>, <<"l", "L">>, <<"m", "M">>, <<"n", "N">>,
    <<"o", "O">>, <<"p", "P">>, <<"q", "Q">>, <<"r", "R">>, <<"s", "S">>, <<"t", "T">>, <<"u", "U">>,
    <<"v", "V">>, <<"w", "W">>, <<"x", "X">>, <<"y", "Y">>, <<"z", "Z">>
  }

LowerToUpper ==
  [k \in {p[1] : p \in LOWER_TO_UPPER_ITEMS} |-> (CHOOSE p \in LOWER_TO_UPPER_ITEMS : p[1] = k)[2]]

LowerLetters == DOMAIN LowerToUpper

Letters == UpperLetters \cup LowerLetters

\* the characters matched by \s in a Python regular expression, and removed by str.strip()
Whitespace == {" ", "\t", "\n", "\r", "\f"}

\* Optional[str]: None, or a one-element tuple holding the string
None == <<>>

Some(s) == <<s>>

\* s[i] of Python, for the 1-based index i
CharAt(s, i) == SubSeq(s, i, i)

\* c in s
Contains(s, c) == \E i \in 1..Len(s) : CharAt(s, i) = c

\* str.upper()
RECURSIVE Upper(_)
Upper(s) ==
  IF s = "" THEN ""
  ELSE (IF Head(s) \in LowerLetters THEN LowerToUpper[Head(s)] ELSE Head(s)) \o Upper(Tail(s))

RECURSIVE LStrip(_)
LStrip(s) ==
  IF s # "" /\ Head(s) \in Whitespace THEN LStrip(Tail(s)) ELSE s

RECURSIVE RStrip(_)
RStrip(s) ==
  IF s # "" /\ CharAt(s, Len(s)) \in Whitespace THEN RStrip(SubSeq(s, 1, Len(s) - 1)) ELSE s

\* str.strip()
Strip(s) == RStrip(LStrip(s))

\* re.sub(r"\s", " ", s): every whitespace character becomes one space
RECURSIVE SubWhitespace(_)
SubWhitespace(s) ==
  IF s = "" THEN ""
  ELSE (IF Head(s) \in Whitespace THEN " " ELSE Head(s)) \o SubWhitespace(Tail(s))

\* re.sub(r"[^...]", "", s): the characters of s that are in the class `keep`
RECURSIVE KeepChars(_, _)
KeepChars(s, keep) ==
  IF s = "" THEN ""
  ELSE (IF Head(s) \in keep THEN Head(s) ELSE "") \o KeepChars(Tail(s), keep)

\* s.replace(old, new) for a one-character old
RECURSIVE Replace(_, _, _)
Replace(s, old, new) ==
  IF s = "" THEN ""
  ELSE (IF Head(s) = old THEN new ELSE Head(s)) \o Replace(Tail(s), old, new)

\* s.split(sep) for a one-character sep: the fields between separators, empty ones included
RECURSIVE SplitAcc(_, _, _)
SplitAcc(s, sep, field) ==
  IF s = "" THEN <<field>>
  ELSE IF Head(s) = sep THEN <<field>> \o SplitAcc(Tail(s), sep, "")
  ELSE SplitAcc(Tail(s), sep, field \o Head(s))

Split(s, sep) == SplitAcc(s, sep, "")

\* sep.join(parts)
RECURSIVE Join(_, _)
Join(parts, sep) ==
  IF parts = <<>> THEN ""
  ELSE IF Len(parts) = 1 THEN parts[1]
  ELSE parts[1] \o sep \o Join(Tail(parts), sep)

\* re.search(r"[^0-9]", s) finds a character
HasNonDigit(s) == \E i \in 1..Len(s) : CharAt(s, i) \notin Digits

(***************************************************************************)
(* Errors.  An outcome of a call is a record whose kind is "Address" (the  *)
(* call returned an instance) or the name of the exception it raised.      *)
(***************************************************************************)
\* raise ValueError(message); the message is kept without the quoted input
ValueError(message) == [kind |-> "ValueError", message |-> message]

\* raise AddressParseError(description, address_string, index)
AddressParseError(description, address_string, index) ==
  [kind |-> "AddressParseError", description |-> description,
   address_string |-> address_string, index |-> index]

\* an out-of-range index into a list or string
IndexError == [kind |-> "IndexError"]

(***************************************************************************)
(* The Address model: constructors.                                        *)
(***************************************************************************)
\* Address.__init__
AddressInit(city, state, zipcode, zipcode_ext) ==
  IF Len(state) # 2
    THEN ValueError("Invalid value for the state")
  ELSE IF Len(zipcode) # 5
    THEN ValueError("Invalid value for the zip code")
  ELSE IF zipcode_ext # None /\ Len(zipcode_ext[1]) # 4
    THEN ValueError("Parameter zipcode_ext should either be None or 4 digits long")
  ELSE [kind |-> "Address",
        type_ |-> "Base (uninitialized)",
        city |-> Upper(city),
        state |-> Upper(state),
        zipcode |-> Upper(zipcode),
        zipcode_ext |-> IF zipcode_ext = None THEN None ELSE Some(Upper(zipcode_ext[1]))]

\* a subclass instance: the base fields, the subclass's type_ and its own fields
Subclass(base, type_, fields) ==
  IF base.kind # "Address" THEN base
  ELSE fields @@ [type_ |-> type_] @@ base

\* GeneralDeliveryAddress (no __init__ of its own)
GeneralDeliveryAddress(city, state, zipcode, zipcode_ext) ==
  Subclass(AddressInit(city, state, zipcode, zipcode_ext), "General Delivery", <<>>)

\* HighwayContractRouteAddress.__init__
HighwayContractRouteAddress(route_number, box_number, city, state, zipcode, zipcode_ext) ==
  Subclass(AddressInit(city, state, zipcode, zipcode_ext), "Highway Contract Route",
           [route_number |-> Upper(route_number), box_number |-> Upper(box_number)])

\* x in y for two strings: x is a substring of y
IsSubstring(x, y) ==
  \E i \in 1..(Len(y) - Len(x) + 1) : SubSeq(y, i, i + Len(x) - 1) = x

\* OverseasMilitaryAddress.__init__
OverseasMilitaryAddress(address_type, address_number, box_number, city, state, zipcode, zipcode_ext) ==
  LET base == AddressInit(city, state, zipcode, zipcode_ext) IN
  IF base.kind # "Address" THEN base
  ELSE IF ~IsSubstring(Upper(address_type), address_type)
    THEN ValueError("Invalid value for address_type")
  ELSE Subclass(base, "Overseas Military",
                [address_type |-> address_type, address_number |-> address_number,
                 box_number |-> box_number])

\* PostOfficeBoxAddress.__init__
PostOfficeBoxAddress(box_number, city, state, zipcode, zipcode_ext) ==
  Subclass(AddressInit(city, state, zipcode, zipcode_ext), "Post Office Box",
           [box_number |-> Upper(box_number)])

\* RuralRouteAddress.__init__
RuralRouteAddress(route_number, box_number, city, state, zipcode, zipcode_ext) ==
  Subclass(AddressInit(city, state, zipcode, zipcode_ext), "Rural Route",
           [route_number |-> Upper(route_number), box_number |-> Upper(box_number)])

\* StandardAddress.__init__; the seven fields are Optional[str]
StandardAddress(address_number, predirectional, street_name, suffix, postdirectional, address2_type, address2, city, state, zipcode, zipcode_ext) ==
  Subclass(AddressInit(city, state, zipcode, zipcode_ext), "Standard Street",
           [address_number |-> address_number, predirectional |-> predirectional,
            street_name |-> street_name, suffix |-> suffix,
            postdirectional |-> postdirectional, address2_type |-> address2_type,
            address2 |-> address2])

(***************************************************************************)
(* The Address model: properties, equality and rendering.                  *)
(***************************************************************************)
\* Address.zipcode_full
zipcode_full(a) ==
  IF a.zipcode_ext = None THEN a.zipcode ELSE a.zipcode \o "-" \o a.zipcode_ext[1]

\* StandardAddress.as_tuple
as_tuple(a) ==
  <<a.address_number, a.predirectional, a.street_name, a.suffix, a.postdirectional,
    a.address2_type, a.address2>>

\* Address.__eq__
BaseEq(a, b) ==
  IF a.type_ # b.type_ THEN FALSE
  ELSE a.city = b.city /\ a.state = b.state /\ zipcode_full(a) = zipcode_full(b)

\* __eq__ of the instance a (dispatched on a's class) applied to b
AddressEq(a, b) ==
  /\ BaseEq(a, b)
  /\ CASE a.type_ \in {"Highway Contract Route", "Rural Route"} ->
            a.route_number = b.route_number /\ a.box_number = b.box_number
       [] a.type_ = "Overseas Military" ->
            /\ a.address_type = b.address_type
            /\ a.address_number = b.address_number
            /\ a.box_number = b.box_number
       [] a.type_ = "Post Office Box" -> a.box_number = b.box_number
       [] a.type_ = "Standard Street" -> as_tuple(a) = as_tuple(b)
       [] OTHER -> TRUE

\* the last line is rendered without the extension of the ZIP
BaseStrWithoutExtension(a) == "\n" \o a.city \o " " \o a.state \o " " \o a.zipcode

\* Address.__str__
BaseStr(a) == "\n" \o a.city \o " " \o a.state \o " " \o zipcode_full(a)

\* the elements of an as_tuple() that are not None
RECURSIVE NotNone(_)
NotNone(fields) ==
  IF fields = <<>> THEN <<>>
  ELSE (IF fields[1] = None THEN <<>> ELSE <<fields[1][1]>>) \o NotNone(Tail(fields))

\* str(a), dispatched on a's class
AddressStr(a) ==
  CASE a.type_ = "General Delivery" -> "GENERAL DELIVERY" \o BaseStr(a)
    [] a.type_ = "Highway Contract Route" ->
         "HC " \o a.route_number \o " BOX " \o a.box_number \o BaseStr(a)
    [] a.type_ = "Overseas Military" ->
         a.address_type \o " " \o a.address_number \o " BOX " \o a.box_number \o BaseStr(a)
    [] a.type_ = "Post Office Box" -> "PO BOX " \o a.box_number \o BaseStr(a)
    [] a.type_ = "Rural Route" ->
         "RR " \o a.route_number \o " BOX " \o a.box_number \o BaseStr(a)
    [] a.type_ = "Standard Street" -> Join(NotNone(as_tuple(a)), " ") \o BaseStr(a)
    [] OTHER -> BaseStr(a)

\* repr of a str without quotes, backslashes or control characters
StrRepr(s) == "'" \o s \o "'"

\* Address.__repr__
BaseRepr(a) ==
  "addressutil.Address(city=" \o StrRepr(a.city) \o ", state=" \o StrRepr(a.state)
    \o ", zipcode=" \o StrRepr(a.zipcode) \o ", zipcode_ext="
    \o (IF a.zipcode_ext = None THEN "<uninitialized>" ELSE StrRepr(a.zipcode_ext[1])) \o ")"

\* the classes that define __eq__ and no __hash__: Python sets their __hash__ to None
UNHASHABLE_TYPES ==
  {"Highway Contract Route", "Overseas Military", "Post Office Box", "Rural Route",
   "Standard Street"}

\* an instance of an unhashable type was hashed
TypeError == [kind |-> "TypeError"]

\* hash(a): Address.__hash__ hashes the repr, and equal strings have equal hashes
Hash(a) ==
  IF a.type_ \in UNHASHABLE_TYPES THEN TypeError
  ELSE IF a.type_ = "General Delivery"
    THEN [kind |-> "int", hash_of |-> "addressutil.GeneralDeliveryAddress(" \o BaseRepr(a) \o ")"]
  ELSE [kind |-> "int", hash_of |-> BaseRepr(a)]

(***************************************************************************)
(* The tokenizer, Address._lex_delivery_address.                           *)
(***************************************************************************)
TYPE_DECIMAL == "decimal"

TYPE_FRACTION == "fraction"

TYPE_NUMBER == "number"

TYPE_NUMBERSUFFIXED == "numbersuffixed"

TYPE_POUND == "pound"

TYPE_SPECIAL == "special"

TYPE_WORD == "word"

\* _AddressToken.__init__
AddressToken(literal, type_, index) == [literal |-> literal, type_ |-> type_, index |-> index]

\* a hyphen does not continue an open token
TokenCharsHyphenClosing == Letters \cup Digits \cup {".", "/"}

\* the characters that may continue an open token: [A-Za-z0-9\-\.\/]
TokenChars == Letters \cup Digits \cup {"-", ".", "/"}

\* the locals of _lex_delivery_address on entry to the loop
LexStart ==
  [output_tokens |-> <<>>, current_position |-> 0, current_token |-> None, raised |-> None]

\* a digit brings the open token back to a number
RefineTypeReset(type_, c) == IF c \in Digits THEN TYPE_NUMBER ELSE TYPE_NUMBERSUFFIXED

\* the kind of the open token after the character c is appended to it
RefineType(type_, c) ==
  IF type_ = TYPE_NUMBER
    THEN IF c = "." THEN TYPE_DECIMAL
         ELSE IF c = "/" THEN TYPE_FRACTION
         ELSE IF c \notin Digits THEN TYPE_NUMBERSUFFIXED
         ELSE type_
  ELSE IF type_ = TYPE_DECIMAL \/ type_ = TYPE_FRACTION
    THEN IF c \notin Digits THEN TYPE_NUMBERSUFFIXED ELSE type_
  ELSE type_

\* one iteration of the while loop, on the character at lx.current_position
LexChar(lx, delivery_address) ==
  LET pos == lx.current_position
      c == CharAt(delivery_address, pos + 1)
      advance == [lx EXCEPT !.current_position = pos + 1]
  IN
  IF c = "\n"
    THEN [lx EXCEPT !.raised = Some(AddressParseError("unexpected newline", delivery_address, pos))]
  ELSE IF lx.current_token = None
    THEN IF c \notin TokenChars \cup {"#"}
           THEN advance
         ELSE IF c \in Digits
           THEN [advance EXCEPT !.current_token = Some(AddressToken(c, TYPE_NUMBER, pos))]
         ELSE IF c \in Letters
           THEN [advance EXCEPT !.current_token = Some(AddressToken(c, TYPE_WORD, pos))]
         ELSE IF c = "#"
           THEN [advance EXCEPT
                   !.output_tokens = Append(@, AddressToken(c, TYPE_POUND, pos))]
         ELSE [advance EXCEPT !.current_token = Some(AddressToken(c, TYPE_SPECIAL, pos))]
  ELSE LET tok == lx.current_token[1] IN
       IF c \notin TokenChars
         THEN [advance EXCEPT
                 !.output_tokens =
                    IF c = "#"
                      THEN Append(Append(@, tok), AddressToken(c, TYPE_POUND, pos))
                      ELSE Append(@, tok),
                 !.current_token = None]
       ELSE [advance EXCEPT
               !.current_token =
                  Some([tok EXCEPT !.type_ = RefineType(tok.type_, c),
                                   !.literal = tok.literal \o c])]

\* after the loop: the still-open token, if any, is appended
LexEnd(lx) ==
  IF lx.current_token # None
    THEN [lx EXCEPT !.output_tokens = Append(@, lx.current_token[1]), !.current_token = None]
    ELSE lx

RECURSIVE LexLoop(_, _)
LexLoop(lx, delivery_address) ==
  IF lx.raised # None THEN lx
  ELSE IF lx.current_position < Len(delivery_address)
    THEN LexLoop(LexChar(lx, delivery_address), delivery_address)
  ELSE LexEnd(lx)

\* _lex_delivery_address(delivery_address): the final locals; the tokens returned are its
\* output_tokens, unless raised holds the error
LexDeliveryAddress(delivery_address) == LexLoop(LexStart, delivery_address)

(***************************************************************************)
(* Address.parse: the last line.                                           *)
(***************************************************************************)
\* the preprocessing of last_line: upper(), strip(), the two re.sub calls
PreprocessLastLine(last_line) ==
  KeepChars(SubWhitespace(Strip(Upper(last_line))),
            Letters \cup Digits \cup Whitespace \cup {"-"})

\* the values of zipcode and zipcode_ext taken from the last token of the last line
ZipFields(zip_token) ==
  IF Contains(zip_token, "-")
    THEN [zipcode |-> Split(zip_token, "-")[1],
          zipcode_ext |-> Some(Split(zip_token, "-")[Len(Split(zip_token, "-"))])]
    ELSE [zipcode |-> zip_token, zipcode_ext |-> None]

\* the ZIP was taken without a digit check
ZipErrorLengthOnly(zip_token) ==
  LET z == ZipFields(zip_token) IN
  IF z.zipcode_ext # None
    THEN IF Len(z.zipcode) # 5 \/ Len(z.zipcode_ext[1]) # 4
           THEN Some(ValueError("ZIP+4 code has the wrong length"))
         ELSE None
  ELSE IF Len(z.zipcode) # 5
    THEN Some(ValueError("ZIP code has the wrong length"))
  ELSE None

\* the checks of the ZIP and ZIP+4: the ValueError raised, or None
ZipError(zip_token) ==
  LET z == ZipFields(zip_token) IN
  IF z.zipcode_ext # None
    THEN IF HasNonDigit(z.zipcode) \/ HasNonDigit(z.zipcode_ext[1])
           THEN Some(ValueError("Invalid characters in ZIP+4 code"))
         ELSE IF Len(z.zipcode) # 5 \/ Len(z.zipcode_ext[1]) # 4
           THEN Some(ValueError("ZIP+4 code has the wrong length"))
         ELSE None
  ELSE IF HasNonDigit(z.zipcode)
    THEN Some(ValueError("Invalid characters in ZIP code"))
  ELSE IF Len(z.zipcode) # 5
    THEN Some(ValueError("ZIP code has the wrong length"))
  ELSE None

\* the last line was split without the check for a missing city
LastLineErrorCityUnchecked(last_line_tokens) ==
  LET n == Len(last_line_tokens) IN
  IF n <= 1
    THEN Some(ValueError("Missing 2-character state code in address last line"))
  ELSE IF ZipError(last_line_tokens[n]) # None
    THEN ZipError(last_line_tokens[n])
  ELSE IF Len(last_line_tokens[n - 1]) # 2
    THEN Some(ValueError("Invalid 2-character state code"))
  ELSE None

\* the checks of the last line, in the order parse makes them: the ValueError raised, or None
LastLineError(last_line_tokens) ==
  LET n == Len(last_line_tokens) IN
  IF n <= 1
    THEN Some(ValueError("Missing 2-character state code in address last line"))
  ELSE IF n <= 2
    THEN Some(ValueError("Missing city in address last line"))
  ELSE IF ZipError(last_line_tokens[n]) # None
    THEN ZipError(last_line_tokens[n])
  ELSE IF Len(last_line_tokens[n - 1]) # 2
    THEN Some(ValueError("Invalid 2-character state code"))
  ELSE None

\* the city, state and ZIP part of parse: raised holds the ValueError, or is None and the
\* four fields are the values of the locals city, state, zipcode and zipcode_ext
ParseLastLine(last_line) ==
  LET last_line_tokens == Split(PreprocessLastLine(last_line), " ")
      n == Len(last_line_tokens)
  IN
  IF LastLineError(last_line_tokens) # None
    THEN [raised |-> LastLineError(last_line_tokens)]
  ELSE [raised |-> None,
        city |-> Join(SubSeq(last_line_tokens, 1, n - 2), " "),
        state |-> last_line_tokens[n - 1],
        zipcode |-> ZipFields(last_line_tokens[n]).zipcode,
        zipcode_ext |-> ZipFields(last_line_tokens[n]).zipcode_ext]

(***************************************************************************)
(* Address.parse: the delivery address.  Token lists are 1-based here; the *)
(* indices the code keeps (suffix_index, address2_index) stay 0-based.     *)
(***************************************************************************)
\* re.sub(r"[^A-Za-z0-9]", "", literal)
StripPunctuation(literal) == KeepChars(literal, Letters \cup Digits)

\* literal.replace('.', "")
StripPeriods(literal) == Replace(literal, ".", "")

\* re.sub(r"[^A-Za-z]", "", field) of an Optional[str]
StripNonLetters(field) ==
  IF field = None THEN None ELSE Some(KeepChars(field[1], Letters))

\* the field is kept as it was spelled
NormalizeSkipped(field, table) == field

\* table[field] if field in table else field, of an Optional[str]
Normalize(field, table) ==
  IF field # None /\ field[1] \in DOMAIN table THEN Some(table[field[1]]) ELSE field

\* the literals of the tokens ts, joined by spaces
JoinLiterals(ts) == Join([i \in 1..Len(ts) |-> ts[i].literal], " ")

\* the first-token prefixes of the route and box forms
ROUTE_PREFIXES == {"HC", "RR", "CPR", "OPC", "PSC", "UPR", "UNIT"}

\* the offset of the first character of the last token
LastTokenStart(t) == t[Len(t)].index

\* the offset just past the last token
PastLastToken(t) == t[Len(t)].index + Len(t[Len(t)].literal)

\* the branch of parse for the route and box forms
ParseRouteBox(t, delivery_address, city, state, zipcode, zipcode_ext) ==
  LET route_address_type ==
        IF t[1].literal \notin {"HC", "RR"} THEN "overseas military"
        ELSE IF t[1].literal = "HC" THEN "highway contract route"
        ELSE "rural route"
  IN
  IF Len(t) < 4
    THEN AddressParseError("missing box number in " \o route_address_type \o " address",
                           delivery_address, PastLastToken(t))
  ELSE IF t[2].type_ \notin {TYPE_NUMBER, TYPE_NUMBERSUFFIXED}
    THEN AddressParseError("invalid " \o route_address_type
                             \o " number, cannot begin with a letter or symbol",
                           delivery_address, t[2].index)
  ELSE IF t[1].literal = "HC"
    THEN HighwayContractRouteAddress(t[2].literal, t[4].literal,
                                     city, state, zipcode, zipcode_ext)
  ELSE IF t[1].literal = "RR"
    THEN RuralRouteAddress(t[2].literal, t[4].literal, city, state, zipcode, zipcode_ext)
  ELSE OverseasMilitaryAddress(t[1].literal, t[2].literal, t[4].literal,
                               city, state, zipcode, zipcode_ext)

\* the box number is taken as it is written, a leading hyphen included
ParsePostOfficeBoxHyphenKept(t, k, delivery_address, city, state, zipcode, zipcode_ext) ==
  IF Len(t) < k
    THEN AddressParseError("missing box number in post office box address",
                           delivery_address, PastLastToken(t))
  ELSE PostOfficeBoxAddress(t[k].literal, city, state, zipcode, zipcode_ext)

\* the branches of parse for a post office box, whose number is the token at position k
ParsePostOfficeBox(t, k, delivery_address, city, state, zipcode, zipcode_ext) ==
  IF Len(t) < k
    THEN AddressParseError("missing box number in post office box address",
                           delivery_address, PastLastToken(t))
  ELSE LET literal == t[k].literal
           po_box_number ==
             IF CharAt(literal, 1) = "-" THEN "0" \o SubSeq(literal, 2, Len(literal))
             ELSE literal
       IN IF literal = "" THEN IndexError
          ELSE PostOfficeBoxAddress(po_box_number, city, state, zipcode, zipcode_ext)

\* the first token's kind was tested without the check of the number of tokens
HasAddressNumberUnguarded(t) ==
  \/ t[1].type_ \in {TYPE_NUMBER, TYPE_FRACTION, TYPE_DECIMAL}
  \/ TYPE_NUMBERSUFFIXED # "" /\ Contains(t[1].literal, "-")

\* the condition under which the first token is taken as the address number
HasAddressNumber(t) ==
  \/ Len(t) >= 2 /\ t[1].type_ \in {TYPE_NUMBER, TYPE_FRACTION, TYPE_DECIMAL}
  \/ TYPE_NUMBERSUFFIXED # "" /\ Contains(t[1].literal, "-")

\* the address number is taken from the front of the tokens
TakeAddressNumber(t) ==
  IF ~HasAddressNumber(t)
    THEN [raised |-> None, address_number |-> None, unparsed_tokens |-> t]
  ELSE IF t[1].type_ = TYPE_NUMBER /\ Len(t) < 2
    THEN [raised |-> Some(IndexError)]
  ELSE IF t[1].type_ = TYPE_NUMBER /\ t[2].type_ = TYPE_FRACTION
    THEN [raised |-> None,
          address_number |-> Some(t[1].literal \o " " \o t[2].literal),
          unparsed_tokens |-> SubSeq(t, 3, Len(t))]
  ELSE [raised |-> None,
        address_number |-> Some(t[1].literal),
        unparsed_tokens |-> Tail(t)]

\* the locals of the scan for the suffix and the secondary unit, before the loop
ScanStart ==
  [suffix_index |-> None, address2_index |-> None, already_seen_hashtag |-> FALSE,
   raised |-> None]

\* one iteration of the scan, on the token at the 0-based index i
ScanToken(sc, t, i, delivery_address) ==
  LET current_token == t[i + 1]
      s1 == IF StripPeriods(current_token.literal) \in SECONDARY_UNIT_INDICATORS
              THEN [sc EXCEPT !.address2_index = Some(i)] ELSE sc
      s2 == IF StripPeriods(current_token.literal) \in STREET_SUFFIXES
              THEN [s1 EXCEPT !.suffix_index = Some(i)] ELSE s1
      s3 == IF current_token.type_ # TYPE_POUND THEN s2
            ELSE IF s2.already_seen_hashtag
              THEN [s2 EXCEPT !.raised = Some(AddressParseError(
                      "only at most one pound sign (#) is permitted in an address",
                      delivery_address, current_token.index))]
            ELSE IF s2.address2_index # None /\ i = s2.address2_index[1] + 1
              THEN [s2 EXCEPT !.raised = Some(AddressParseError(
                      "cannot have pound sign (#) if unit specifier is already present",
                      delivery_address, current_token.index))]
            ELSE [s2 EXCEPT !.address2_index = Some(i), !.already_seen_hashtag = TRUE]
  IN
  IF s3.raised # None THEN s3
  ELSE IF current_token.type_ = TYPE_SPECIAL
    THEN [s3 EXCEPT !.raised = Some(AddressParseError("unexpected token", delivery_address,
                                                       current_token.index))]
  ELSE s3

RECURSIVE ScanLoop(_, _, _, _)
ScanLoop(sc, t, i, delivery_address) ==
  IF sc.raised # None \/ i >= Len(t) THEN sc
  ELSE ScanLoop(ScanToken(sc, t, i, delivery_address), t, i + 1, delivery_address)

\* for i in range(len(unparsed_tokens)): ...
ScanTokens(t, delivery_address) == ScanLoop(ScanStart, t, 0, delivery_address)

\* the suffix found by the scan is kept wherever it is
SuffixIndexKept(t, suffix_index0) == suffix_index0

\* a suffix that is not at the end of the tokens t is not the suffix
TerminalSuffixIndex(t, suffix_index0) ==
  IF suffix_index0 # None /\ Len(t) - suffix_index0[1] > 1 THEN None ELSE suffix_index0

\* the fields of a standard address, from the tokens left after the secondary unit was
\* removed: postdirectional, then suffix, predirectional and street name
StreetFields(t0, suffix_index0) ==
  LET has_post == Len(t0) > 0 /\ StripPeriods(t0[Len(t0)].literal) \in DIRECTIONS_LIST
      postdirectional == IF has_post THEN Some(t0[Len(t0)].literal) ELSE None
      t == IF has_post THEN SubSeq(t0, 1, Len(t0) - 1) ELSE t0
      suffix_index == TerminalSuffixIndex(t, suffix_index0)
  IN
  IF suffix_index = None
    THEN LET has_pre == Len(t) > 1 /\ StripPeriods(t[1].literal) \in DIRECTIONS_LIST IN
         [raised |-> None,
          predirectional |-> IF has_pre THEN Some(t[1].literal) ELSE None,
          street_name |-> JoinLiterals(IF has_pre THEN Tail(t) ELSE t),
          street_suffix |-> None,
          postdirectional |-> postdirectional]
  ELSE IF suffix_index[1] > 1 /\ Len(t) < 1
    THEN [raised |-> Some(IndexError)]
  ELSE IF suffix_index[1] + 1 > Len(t)
    THEN [raised |-> Some(IndexError)]
  ELSE LET has_pre == suffix_index[1] > 1 /\ StripPeriods(t[1].literal) \in DIRECTIONS_LIST
           street_start_index == IF has_pre THEN 1 ELSE 0
       IN
       [raised |-> None,
        predirectional |-> IF has_pre THEN Some(t[1].literal) ELSE None,
        street_name |-> JoinLiterals(SubSeq(t, street_start_index + 1, suffix_index[1])),
        street_suffix |-> Some(t[suffix_index[1] + 1].literal),
        postdirectional |-> postdirectional]

\* a secondary unit found before the suffix is kept
Address2IndexKept(sc) == sc.address2_index

\* the secondary unit must be after the street suffix
Address2Index(sc) ==
  IF sc.suffix_index # None /\ sc.address2_index # None
       /\ sc.address2_index[1] <= sc.suffix_index[1]
    THEN None ELSE sc.address2_index

\* the default branch of parse: a standard address
ParseStandard(tokens, delivery_address, city, state, zipcode, zipcode_ext) ==
  LET num == TakeAddressNumber(tokens)
      t == num.unparsed_tokens
      sc == ScanTokens(t, delivery_address)
      address2_index == Address2Index(sc)
      address2_type ==
        IF address2_index = None THEN None ELSE Some(t[address2_index[1] + 1].literal)
      address2 ==
        IF address2_index = None THEN None
        ELSE Some(JoinLiterals(SubSeq(t, address2_index[1] + 2, Len(t))))
      rest == IF address2_index = None THEN t ELSE SubSeq(t, 1, address2_index[1])
      st == StreetFields(rest, sc.suffix_index)
  IN
  IF num.raised # None THEN num.raised[1]
  ELSE IF sc.raised # None THEN sc.raised[1]
  ELSE IF address2_index # None /\ address2_index[1] = Len(t) - 1
    THEN AddressParseError("missing number for secondary address", delivery_address,
                           PastLastToken(t))
  ELSE IF st.raised # None THEN st.raised[1]
  ELSE StandardAddress(num.address_number,
                       Normalize(StripNonLetters(st.predirectional), DIRECTIONS_MAPPING),
                       Some(Replace(st.street_name, "-", " ")),
                       Normalize(StripNonLetters(st.street_suffix), STREET_SUFFIX_MAPPING),
                       Normalize(StripNonLetters(st.postdirectional), DIRECTIONS_MAPPING),
                       address2_type, address2, city, state, zipcode, zipcode_ext)

\* parse from the token list on: the choice of the address shape
ParseTokens(t, delivery_address, city, state, zipcode, zipcode_ext) ==
  IF Len(t) = 0
    THEN AddressParseError("no valid tokens found", delivery_address, 0)
  ELSE IF Len(t) = 2 /\ t[1].literal = "GENERAL" /\ t[2].literal = "DELIVERY"
    THEN GeneralDeliveryAddress(city, state, zipcode, zipcode_ext)
  ELSE IF StripPunctuation(t[1].literal) \in ROUTE_PREFIXES
            /\ (Len(t) >= 3 /\ t[3].literal = "BOX")
    THEN ParseRouteBox(t, delivery_address, city, state, zipcode, zipcode_ext)
  ELSE IF Len(t) >= 2 /\ StripPunctuation(t[1].literal) = "PO" /\ t[2].literal = "BOX"
    THEN ParsePostOfficeBox(t, 3, delivery_address, city, state, zipcode, zipcode_ext)
  ELSE IF Len(t) >= 3 /\ StripPunctuation(t[1].literal) = "P"
            /\ StripPunctuation(t[2].literal) = "O" /\ t[3].literal = "BOX"
    THEN ParsePostOfficeBox(t, 4, delivery_address, city, state, zipcode, zipcode_ext)
  ELSE ParseStandard(t, delivery_address, city, state, zipcode, zipcode_ext)

\* the delivery address reaches the tokenizer in the letter case of the caller
LexInputCaseKept(delivery_address) == Strip(delivery_address)

\* the argument parse gives the tokenizer
LexInput(delivery_address) == Strip(Upper(delivery_address))

\* Address.parse(delivery_address, last_line): the outcome of the call
Parse(delivery_address, last_line) ==
  LET ll == ParseLastLine(last_line)
      lx == LexDeliveryAddress(LexInput(delivery_address))
  IN
  IF ll.raised # None THEN ll.raised[1]
  ELSE IF lx.raised # None THEN lx.raised[1]
  ELSE ParseTokens(lx.output_tokens, delivery_address,
                   ll.city, ll.state, ll.zipcode, ll.zipcode_ext)

(***************************************************************************)
(* Bounds and inputs.  A client makes one call: Address.parse on a pair of *)
(* strings, or a constructor on field values.                              *)
(***************************************************************************)
\* the longest delivery address, in words, of the exhaustive family
MaxWords == 3

\* the longest last line, in words, of the exhaustive family
MaxLastWords == 3

\* all space-joined sequences of at most n words
Phrases(words, n) == UNION {{Join(w, " ") : w \in [1..k -> words]} : k \in 0..n}

\* words that reach each branch of the delivery-address parser
DeliveryWords == {"5", "1/2", "#", "-", "N", "ST", "APT", "PO", "BOX", "HC", "MAIN"}

\* words of a last line: well-formed and malformed states and ZIP codes; the empty word
\* gives a run of two spaces
LastLineWords ==
  {"SPRINGFIELD", "IL", "ILLINOIS", "12345", "1234", "1234A", "12345-6789", "12345-678",
   "12345-00-6789", ""}

DefaultDelivery == "123 MAIN ST"

DefaultLastLine == "SPRINGFIELD IL 12345-6789"

\* the addresses of the self-test of the module and of its docstring
TestAddresses ==
  {
    <<"123 N. MAIN ST.", "CHICAGO IL 12345">>,
    <<"4725 NORTHWEST 193RD COURT", "CHICAGO, IL, 29525-9186">>,
    <<"1552 COUNTY ROAD 252", "CHICAGO IL 12345-6789">>,
    <<"1480 Inner Road", "Gainesville, FL 32611">>,
    <<"General Delivery", "Gainesville, FL, 32601">>,
    <<"1234 S.E. BROADWAY AVE UNIT 5", "NEW YORK, NY, 10002">>,
    <<"PO BOX 15", "SPRINGFIELD IL 12345">>,
    <<"P.O. BOX C", "SPRINGFIELD IL 12345">>,
    <<"123 MAIN ST # 45", "SPRINGFIELD IL 12345">>,
    <<"123 MAIN ST #45", "SPRINGFIELD IL 12345">>,
    <<"51 1/2 362ND COURT SE", "CHICAGO, IL, 56124-7162">>,
    <<"201 FILBERT ST,STE 700", "SAN FRANCISCO CA 94133-3242">>,
    <<"P. O. BOX 123", "SPRINGFIELD IL 12345">>,
    <<"P. O. BOX 123B", "SPRINGFIELD IL 12345">>,
    <<"123 MAIN ST.", "SPRINGFIELD IL 12345-6789">>,
    <<"123 N.W. MAIN ST.", "SPRINGFIELD IL 12345-6789">>,
    <<"123 NW MAIN STREET", "SPRINGFIELD IL 12345-6789">>
  }

\* spellings of a direction and of a street suffix
DirectionSpellings == {"N.W.", "NW", "NORTHWEST", "S.E.", "SOUTHEAST"}

SuffixSpellings == {"ST.", "ST", "STREET", "STR", "AVE", "AVENUE", "BLVD", "BOULEVARD", "BAYOU"}

\* number, predirectional, street name and suffix
StreetForm(direction, suffix) == "123 " \o direction \o " MAIN " \o suffix

\* route and box forms: prefix, number, BOX, box number
RouteForms ==
  {Join(<<p, n, b>>, " ") : p \in {"HC", "H.C.", "RR", "R.R.", "PSC", "UNIT", "XX"},
                            n \in {"1", "2B", "A", "1/2"},
                            b \in {"BOX", "BOX 5", "BOX 7C X", "BX 5"}}

\* delivery addresses with line breaks, other whitespace, lower case and hyphens
OtherDeliveries ==
  {"\n123 MAIN ST", "123 MAIN ST\n", "123\nMAIN ST", "123 MAIN\n\nST", "\n", "  123 MAIN ST",
   "123\tMAIN ST", "general delivery", "GENERAL DELIVERY 5", "po box -5", "P O BOX",
   "123 MAIN-ST", "12-34 MAIN ST", "A-B", "12.5 MAIN ST APT", "123 E MAIN ST N APT 4 #",
   "123 N ST", "123 MAIN ST STE 5 # 6", "123 MAIN ST # 5 # 6", "1552 COUNTY RD 252 N",
   "PO BOX # #", "PO BOX 15 # #", "HC 1 BOX # #", "P O BOX -15 9", "P.O. BOX C 7",
   "  HC 1 BOX", " PO BOX", " RR A BOX 5", "123 MAIN ST APT 5 B", "123 APT MAIN ST",
   "123 MAIN ST # 5 APT 6", "  123 - MAIN", "123 N MAIN ST S", "A-B MAIN ST",
   "123 MAIN RD TRLR 5", "123 S N", " 123 MAIN APT", "123 NORTH MAIN ST S.W.",
   "123 N.-E. MAIN ST", "123 WEST EAST"}

\* last lines that differ in case, whitespace and punctuation
OtherLastLines ==
  {"springfield il 12345", " SPRINGFIELD IL 12345 ", "SPRINGFIELD\tIL\n12345",
   "SPRINGFIELD , IL 12345", "SPRINGFIELD, IL. 12345", "NEW YORK NY 10002-0001",
   "SPRINGFIELD IL 12345-", "SPRINGFIELD IL -6789", "SPRINGFIELD I- 12345",
   "SPRINGFIELD IL 12345--6789", "SPRINGFIELD IL 123456"}

ParseCall(d, l) == [op |-> "parse", delivery_address |-> d, last_line |-> l]

\* the calls of Address.parse
ParseCalls ==
  {ParseCall(d, DefaultLastLine) :
     d \in Phrases(DeliveryWords, MaxWords) \cup RouteForms \cup OtherDeliveries
           \cup {StreetForm(x, y) : x \in DirectionSpellings, y \in SuffixSpellings}}
  \cup {ParseCall(DefaultDelivery, l) :
          l \in Phrases(LastLineWords, MaxLastWords) \cup OtherLastLines}
  \cup {ParseCall(p[1], p[2]) : p \in TestAddresses}
  \cup {ParseCall(d, l) : d \in {"\n123 MAIN ST", "", "-", "# #"},
                          l \in {"SPRINGFIELD IL 1234", "IL 12345", ""}}

\* the classes a client constructs directly
Classes ==
  {"Address", "GeneralDeliveryAddress", "HighwayContractRouteAddress",
   "OverseasMilitaryAddress", "PostOfficeBoxAddress", "RuralRouteAddress", "StandardAddress"}

\* the arguments a subclass constructor takes before city, state, zipcode and zipcode_ext
OwnArguments(class) ==
  CASE class \in {"HighwayContractRouteAddress", "RuralRouteAddress"} ->
         {<<Some(r), Some(b)>> : r \in {"1", "2b"}, b \in {"5", "7c"}}
    [] class = "OverseasMilitaryAddress" ->
         {<<Some(t), Some(n), Some("5")>> :
            t \in {"PSC", "UNIT", "psc", "XYZ", "H.C.", ""}, n \in {"1", "1a"}}
    [] class = "PostOfficeBoxAddress" -> {<<Some("15")>>, <<Some("c")>>}
    [] class = "StandardAddress" ->
         {<<n, d, Some(s), x, None, u[1], u[2]>> :
            n \in {None, Some("123")}, d \in {None, Some("N")}, s \in {"MAIN", "main"},
            x \in {None, Some("ST"), Some("st")},
            u \in {<<None, None>>, <<Some("Apt"), Some("4b")>>}}
    [] OTHER -> {<<>>}

\* the own arguments each class gets when the base fields vary
DefaultOwnArguments(class) ==
  CASE class \in {"HighwayContractRouteAddress", "RuralRouteAddress"} -> <<Some("1"), Some("5")>>
    [] class = "OverseasMilitaryAddress" -> <<Some("PSC"), Some("1"), Some("5")>>
    [] class = "PostOfficeBoxAddress" -> <<Some("15")>>
    [] class = "StandardAddress" ->
         <<Some("123"), None, Some("MAIN"), Some("ST"), None, None, None>>
    [] OTHER -> <<>>

ConstructCall(c, own, city, s, z, e) ==
  [op |-> "construct", class |-> c, own |-> own, city |-> city, state |-> s, zipcode |-> z,
   zipcode_ext |-> e]

\* the direct constructions: the base fields vary with one set of own fields for each
\* class, and the own fields vary with well-formed base fields
ConstructCalls ==
  {ConstructCall(c, DefaultOwnArguments(c), "Springfield", s, z, e) :
     c \in Classes, s \in {"IL", "il", "ILL", "I", ""},
     z \in {"12345", "1234", "123456", "ABCDE", "1234 "},
     e \in {None, Some("6789"), Some("678"), Some("ABCD"), Some("")}}
  \cup UNION {{ConstructCall(c, own, city, s, "12345", e) :
                 own \in OwnArguments(c), city \in {"Springfield", "SPRINGFIELD"},
                 s \in {"IL", "il"}, e \in {None, Some("6789")}} : c \in Classes}

(***************************************************************************)
(* The state machine.                                                      *)
(***************************************************************************)
VARIABLES
  call,             \* the call the client makes, with its arguments
  pc,               \* where the call is: "called", "lex", "tokens", "done"
  fields,           \* parse: the locals city, state, zipcode, zipcode_ext
  unparsed_tokens,  \* parse: the list returned by the tokenizer
  result,           \* the outcome: the instance returned or the exception raised
  threads,          \* the calls of parse that run concurrently, each with its own
                    \* call, pc, fields, unparsed_tokens and result
  lexer             \* a call of _lex_delivery_address that runs one iteration of its
                    \* loop at a time: its argument, its locals and where it is

vars == <<call, pc, fields, unparsed_tokens, result, threads, lexer>>

\* no outcome yet
Pending == [kind |-> "pending"]

\* the locals city, state, zipcode, zipcode_ext as parse initializes them
InitialFields ==
  [raised |-> None, city |-> "", state |-> "", zipcode |-> "", zipcode_ext |-> Some("")]

\* no call of the tokenizer is followed iteration by iteration
NoLexer == [delivery_address |-> "", locals |-> LexStart, pc |-> "none"]

Init ==
  /\ call \in ParseCalls \cup ConstructCalls
  /\ pc = "called"
  /\ fields = InitialFields
  /\ unparsed_tokens = <<>>
  /\ result = Pending
  /\ threads = <<>>
  /\ lexer = NoLexer

\* the tokenizer is called whatever the last line is
AfterLastLineTokenize(ll) == "lex"

\* where parse goes on after the last line: an error of the last line is raised before
\* the tokenizer is called
AfterLastLine(ll) == IF ll.raised # None THEN "done" ELSE "lex"

\* parse, first part: the last line is validated and split
ParseLastLineStep ==
  /\ pc = "called"
  /\ call.op = "parse"
  /\ LET ll == ParseLastLine(call.last_line) IN
     /\ pc' = AfterLastLine(ll)
     /\ IF ll.raised # None
          THEN /\ result' = ll.raised[1]
               /\ fields' = fields
          ELSE /\ fields' = ll
               /\ result' = result
  /\ UNCHANGED <<call, unparsed_tokens, threads, lexer>>

\* parse, second part: the delivery address is tokenized
LexStep ==
  /\ pc = "lex"
  /\ LET lx == LexDeliveryAddress(LexInput(call.delivery_address)) IN
     IF lx.raised # None
       THEN /\ result' = lx.raised[1]
            /\ pc' = "done"
            /\ unparsed_tokens' = unparsed_tokens
       ELSE /\ unparsed_tokens' = lx.output_tokens
            /\ pc' = "tokens"
            /\ result' = result
  /\ UNCHANGED <<call, fields, threads, lexer>>

\* parse, third part: the shape is chosen and the instance built
ParseTokensStep ==
  /\ pc = "tokens"
  /\ result' = ParseTokens(unparsed_tokens, call.delivery_address,
                           fields.city, fields.state, fields.zipcode, fields.zipcode_ext)
  /\ pc' = "done"
  /\ UNCHANGED <<call, fields, unparsed_tokens, threads, lexer>>

\* the instance a direct construction of call.class gives, or the error
Constructed(c) ==
  CASE c.class = "Address" -> AddressInit(c.city, c.state, c.zipcode, c.zipcode_ext)
    [] c.class = "GeneralDeliveryAddress" ->
         GeneralDeliveryAddress(c.city, c.state, c.zipcode, c.zipcode_ext)
    [] c.class = "HighwayContractRouteAddress" ->
         HighwayContractRouteAddress(c.own[1][1], c.own[2][1],
                                     c.city, c.state, c.zipcode, c.zipcode_ext)
    [] c.class = "OverseasMilitaryAddress" ->
         OverseasMilitaryAddress(c.own[1][1], c.own[2][1], c.own[3][1],
                                 c.city, c.state, c.zipcode, c.zipcode_ext)
    [] c.class = "PostOfficeBoxAddress" ->
         PostOfficeBoxAddress(c.own[1][1], c.city, c.state, c.zipcode, c.zipcode_ext)
    [] c.class = "RuralRouteAddress" ->
         RuralRouteAddress(c.own[1][1], c.own[2][1],
                           c.city, c.state, c.zipcode, c.zipcode_ext)
    [] c.class = "StandardAddress" ->
         StandardAddress(c.own[1], c.own[2], c.own[3], c.own[4], c.own[5], c.own[6], c.own[7],
                         c.city, c.state, c.zipcode, c.zipcode_ext)

\* a constructor called directly
Construct ==
  /\ pc = "called"
  /\ call.op = "construct"
  /\ result' = Constructed(call)
  /\ pc' = "done"
  /\ UNCHANGED <<call, fields, unparsed_tokens, threads, lexer>>

Next == ParseLastLineStep \/ LexStep \/ ParseTokensStep \/ Construct

Spec == Init /\ [][Next]_vars

(***************************************************************************)
(* Concurrent calls.  Address.parse is a static method: city, state,       *)
(* zipcode, zipcode_ext and unparsed_tokens are locals of the call, and the *)
(* reference tables are module constants that no statement assigns.  Each  *)
(* thread runs the three parts of parse; the parts of different threads    *)
(* interleave.                                                             *)
(***************************************************************************)
\* the number of threads that call parse concurrently
MaxThreads == 2

\* the calls the threads make
ConcurrentCalls ==
  {ParseCall(d, l) :
     d \in {"123 N MAIN ST APT 4", "PO BOX -5", "HC 1 BOX", "123\nMAIN"},
     l \in {DefaultLastLine, "IL 12345"}}

\* no call: the state of the single caller while only the threads run
NoCall == [op |-> "none"]

\* the locals of a call of parse on entry
ThreadStart(c) ==
  [call |-> c, pc |-> "called", fields |-> InitialFields, unparsed_tokens |-> <<>>,
   result |-> Pending]

InitConcurrent ==
  /\ call = NoCall
  /\ pc = "done"
  /\ fields = InitialFields
  /\ unparsed_tokens = <<>>
  /\ result = Pending
  /\ threads \in [1..MaxThreads -> {ThreadStart(c) : c \in ConcurrentCalls}]
  /\ lexer = NoLexer

\* the call of thread t ends with this outcome
StoreResult(ths, t, outcome) == [ths EXCEPT ![t].result = outcome, ![t].pc = "done"]

\* thread t assigns its locals city, state, zipcode, zipcode_ext
StoreFields(ths, t, ll) == [ths EXCEPT ![t].fields = ll, ![t].pc = "lex"]

\* the token list is one list that all the calls share
StoreTokensShared(ths, t, tokens) ==
  [u \in DOMAIN ths |->
     IF u = t THEN [ths[u] EXCEPT !.unparsed_tokens = tokens, !.pc = "tokens"]
     ELSE [ths[u] EXCEPT !.unparsed_tokens = tokens]]

\* thread t assigns its local unparsed_tokens
StoreTokens(ths, t, tokens) == [ths EXCEPT ![t].unparsed_tokens = tokens, ![t].pc = "tokens"]

\* thread t: the last line is validated and split
ThreadLastLineStep(t) ==
  /\ threads[t].pc = "called"
  /\ LET ll == ParseLastLine(threads[t].call.last_line) IN
     threads' = IF ll.raised # None THEN StoreResult(threads, t, ll.raised[1])
                ELSE StoreFields(threads, t, ll)
  /\ UNCHANGED <<call, pc, fields, unparsed_tokens, result, lexer>>

\* thread t: the delivery address is tokenized
ThreadLexStep(t) ==
  /\ threads[t].pc = "lex"
  /\ LET lx == LexDeliveryAddress(LexInput(threads[t].call.delivery_address)) IN
     threads' = IF lx.raised # None THEN StoreResult(threads, t, lx.raised[1])
                ELSE StoreTokens(threads, t, lx.output_tokens)
  /\ UNCHANGED <<call, pc, fields, unparsed_tokens, result, lexer>>

\* thread t: the shape is chosen and the instance built
ThreadParseTokensStep(t) ==
  /\ threads[t].pc = "tokens"
  /\ LET th == threads[t] IN
     threads' = StoreResult(threads, t,
                  ParseTokens(th.unparsed_tokens, th.call.delivery_address, th.fields.city,
                              th.fields.state, th.fields.zipcode, th.fields.zipcode_ext))
  /\ UNCHANGED <<call, pc, fields, unparsed_tokens, result, lexer>>

NextConcurrent ==
  \E t \in DOMAIN threads :
    ThreadLastLineStep(t) \/ ThreadLexStep(t) \/ ThreadParseTokensStep(t)

SpecConcurrent == InitConcurrent /\ [][NextConcurrent]_vars

(***************************************************************************)
(* The tokenizer, one iteration at a time.  _lex_delivery_address is       *)
(* called on a string and runs its while loop one character per step; the  *)
(* tokens it has appended to output_tokens are the closed ones, the token  *)
(* in current_token is the open one.                                       *)
(***************************************************************************)
\* the length of the strings the tokenizer is called on, character by character
MaxLexLen == 3

\* the characters these strings are made of
LexAlphabet == {"1", "A", ".", "/", "-", " ", "#", "\n"}

RECURSIVE StringsOver(_, _)
\* the strings of n characters of the alphabet
StringsOver(alphabet, n) ==
  IF n = 0 THEN {""} ELSE {s \o c : s \in StringsOver(alphabet, n - 1), c \in alphabet}

\* the arguments of the tokenizer: the short strings, and the delivery addresses as parse
\* hands them over
LexInputs ==
  UNION {StringsOver(LexAlphabet, n) : n \in 1..MaxLexLen}
    \cup {LexInput(a[1]) : a \in TestAddresses}
    \cup {"12.5/3A 1.2.3 #5#A- .5", "1/2/3 1-2 A1.B", "ST.-", "ST. -", "5 1/2A #"}

InitLex ==
  /\ call = NoCall
  /\ pc = "done"
  /\ fields = InitialFields
  /\ unparsed_tokens = <<>>
  /\ result = Pending
  /\ threads = <<>>
  /\ lexer \in {[delivery_address |-> d, locals |-> LexStart, pc |-> "loop"] : d \in LexInputs}

\* one iteration of: while current_position < len(delivery_address)
LexCharStep ==
  /\ lexer.pc = "loop"
  /\ lexer.locals.current_position < Len(lexer.delivery_address)
  /\ LET lx == LexChar(lexer.locals, lexer.delivery_address) IN
     lexer' = [lexer EXCEPT !.locals = lx,
                            !.pc = IF lx.raised # None THEN "raised" ELSE "loop"]
  /\ UNCHANGED <<call, pc, fields, unparsed_tokens, result, threads>>

\* the end of the loop: the open token is appended and output_tokens returned
LexEndStep ==
  /\ lexer.pc = "loop"
  /\ lexer.locals.current_position >= Len(lexer.delivery_address)
  /\ lexer' = [lexer EXCEPT !.locals = LexEnd(lexer.locals), !.pc = "returned"]
  /\ UNCHANGED <<call, pc, fields, unparsed_tokens, result, threads>>

NextLex == LexCharStep \/ LexEndStep

SpecLex == InitLex /\ [][NextLex]_vars

(***************************************************************************)
(* Properties.                                                             *)
(***************************************************************************)
\* a call of Address.parse has ended
Parsed == pc = "done" /\ call.op = "parse"

\* a call of Address.parse has returned an address
Returned == Parsed /\ result.kind = "Address"

\* s is exactly n digits
IsDigits(s, n) == Len(s) = n /\ \A i \in 1..Len(s) : CharAt(s, i) \in Digits

\* the tokens of the last line of the call
LastLineTokens == Split(PreprocessLastLine(call.last_line), " ")

\* the last line of the call is accepted
LastLineAccepted == ParseLastLine(call.last_line).raised = None

\* the two lines of str(a), parsed again
Reparsed(a) ==
  LET lines == Split(AddressStr(a), "\n") IN
  IF Len(lines) # 2 THEN [kind |-> "TypeError"] ELSE Parse(lines[1], lines[2])

\* C1: whenever parse returns an address A, parsing the two lines of str(A) succeeds and
\* returns an address equal to A.
C1_Idempotence ==
  Returned => /\ Reparsed(result).kind = "Address"
              /\ AddressEq(result, Reparsed(result))

\* the preferred code of a spelling of a direction
DirectionCode(x) == Normalize(Some(KeepChars(x, Letters)), DIRECTIONS_MAPPING)

\* the preferred abbreviation of a spelling of a street suffix
SuffixCode(y) == Normalize(Some(KeepChars(y, Letters)), STREET_SUFFIX_MAPPING)

\* C2: two delivery addresses that differ only in periods, in the spelling of a direction
\* or in spellings of the street suffix with the same preferred abbreviation parse, with
\* the same valid last line, to equal addresses.
C2_NormalizationEquivalence ==
  \A x1 \in DirectionSpellings, y1 \in SuffixSpellings :
    (Parsed /\ call.delivery_address = StreetForm(x1, y1) /\ LastLineAccepted) =>
      \A x2 \in DirectionSpellings, y2 \in SuffixSpellings :
        (DirectionCode(x1) = DirectionCode(x2) /\ SuffixCode(y1) = SuffixCode(y2)) =>
          LET other == Parse(StreetForm(x2, y2), call.last_line) IN
          /\ result.kind = "Address"
          /\ other.kind = "Address"
          /\ AddressEq(result, other)

\* C3: every address parse returns has a state of 2 characters, a zipcode of 5 digits, a
\* zipcode_ext that is absent or 4 digits, and as city the space-join of the last-line
\* tokens before the state token.
C3_LastLineFields ==
  Returned =>
    LET n == Len(LastLineTokens) IN
    /\ Len(result.state) = 2
    /\ IsDigits(result.zipcode, 5)
    /\ result.zipcode_ext = None \/ IsDigits(result.zipcode_ext[1], 4)
    /\ n >= 3
    /\ result.city = Join(SubSeq(LastLineTokens, 1, n - 2), " ")
    /\ call.last_line = "SPRINGFIELD IL 12345-6789" =>
         /\ result.city = "SPRINGFIELD"
         /\ result.state = "IL"
         /\ result.zipcode = "12345"
         /\ result.zipcode_ext = Some("6789")

\* an address was returned for a last line with a city of several tokens and a ZIP+4
C3_Witness ==
  /\ Returned
  /\ Len(LastLineTokens) >= 4
  /\ result.zipcode_ext # None
  /\ Contains(result.city, " ")

\* C4: a direct construction succeeds only with a state of 2 characters, a zipcode of
\* exactly 5 digits and a zipcode_ext that is absent or exactly 4 digits.
C4_ConstructionValidated ==
  (pc = "done" /\ call.op = "construct" /\ result.kind = "Address") =>
    /\ Len(call.state) = 2
    /\ IsDigits(call.zipcode, 5)
    /\ call.zipcode_ext = None \/ IsDigits(call.zipcode_ext[1], 4)

\* the six shapes of a complete address
Shapes ==
  {"General Delivery", "Highway Contract Route", "Overseas Military", "Post Office Box",
   "Rural Route", "Standard Street"}

\* C5: parse returns a complete address or fails with AddressParseError or ValueError;
\* it fails with no other error.
C5_OnlyTwoFailureKinds ==
  Parsed =>
    /\ result.kind \in {"Address", "AddressParseError", "ValueError"}
    /\ result.kind = "Address" => result.type_ \in Shapes

\* a standard address was returned although no token was left for the street
C5_Witness ==
  /\ Returned
  /\ result.type_ = "Standard Street"
  /\ result.street_name = Some("")
  /\ Len(unparsed_tokens) = 1

\* C6: with a valid last line, a delivery address that contains a line break at any
\* position fails with AddressParseError.
C6_LineBreaksRejected ==
  (Parsed /\ LastLineAccepted /\ Contains(call.delivery_address, "\n"))
    => result.kind = "AddressParseError"

\* z is five digits, or five digits, a hyphen and four digits
WellFormedZip(z) ==
  \/ IsDigits(z, 5)
  \/ /\ Len(z) = 10
     /\ IsDigits(SubSeq(z, 1, 5), 5)
     /\ CharAt(z, 6) = "-"
     /\ IsDigits(SubSeq(z, 7, 10), 4)

\* the call failed with one of the invalid-ZIP errors
InvalidZipRaised ==
  /\ result.kind = "ValueError"
  /\ result.message \in {"Invalid characters in ZIP+4 code", "ZIP+4 code has the wrong length",
                         "Invalid characters in ZIP code", "ZIP code has the wrong length"}

\* C7: a last line with a state and a city is accepted only if its last token is a
\* well-formed ZIP or ZIP+4; every other last token fails with the invalid-ZIP error.
C7_ZipValidation ==
  (Parsed /\ Len(LastLineTokens) >= 3) =>
    (InvalidZipRaised <=> ~WellFormedZip(LastLineTokens[Len(LastLineTokens)]))

\* last lines that differ from l only in letter case, in leading and trailing whitespace
\* and in the length of the runs of whitespace
LastLineVariants(l) == {Upper(l), " " \o l \o "\t", Replace(l, " ", "  ")}

\* two outcomes of parse are the same failure, or addresses with the same last-line fields
SameLastLineOutcome(o1, o2) ==
  IF o1.kind = "Address" /\ o2.kind = "Address"
    THEN /\ o1.city = o2.city
         /\ o1.state = o2.state
         /\ o1.zipcode = o2.zipcode
         /\ o1.zipcode_ext = o2.zipcode_ext
    ELSE o1 = o2

\* C8: last lines that differ only in letter case, surrounding whitespace or the length
\* of whitespace runs give the same city, state, zipcode and zipcode_ext, or the same
\* failure.
C8_LastLineNormalization ==
  Parsed =>
    \A l2 \in LastLineVariants(call.last_line) :
       SameLastLineOutcome(result, Parse(call.delivery_address, l2))

\* the call failed with the ValueError of this message
Raised(message) == result.kind = "ValueError" /\ result.message = message

\* C9 as stated: fewer than 2 tokens fail with the missing-state error, exactly 2 with the
\* missing-city error, and a second-to-last token not 2 characters long with the
\* invalid-state error.
C9_LastLineStructure ==
  Parsed =>
    LET n == Len(LastLineTokens) IN
    /\ n < 2 => Raised("Missing 2-character state code in address last line")
    /\ n = 2 => Raised("Missing city in address last line")
    /\ (n >= 3 /\ Len(LastLineTokens[n - 1]) # 2) => Raised("Invalid 2-character state code")

\* C9 as amended: the ZIP is validated before the state, so the invalid-state error is
\* the outcome for a second-to-last token not 2 characters long when, in addition, the
\* last token is a well-formed ZIP or ZIP+4.
C9_LastLineStructureAmended ==
  Parsed =>
    LET n == Len(LastLineTokens) IN
    /\ n < 2 => Raised("Missing 2-character state code in address last line")
    /\ n = 2 => Raised("Missing city in address last line")
    /\ (n >= 3 /\ Len(LastLineTokens[n - 1]) # 2 /\ WellFormedZip(LastLineTokens[n])) =>
         Raised("Invalid 2-character state code")

\* a last line with a well-formed ZIP failed on a state token that is a full state name
C9_Witness ==
  /\ Parsed
  /\ Len(LastLineTokens) >= 3
  /\ WellFormedZip(LastLineTokens[Len(LastLineTokens)])
  /\ Len(LastLineTokens[Len(LastLineTokens) - 1]) > 2
  /\ Raised("Invalid 2-character state code")

\* the form of the call is a complete route and box form: at least four tokens, the
\* third of them BOX, the second a Number or NumberSuffixed
CompleteRouteForm ==
  /\ Len(unparsed_tokens) >= 4
  /\ unparsed_tokens[3].literal = "BOX"
  /\ unparsed_tokens[2].type_ \in {TYPE_NUMBER, TYPE_NUMBERSUFFIXED}

\* C10: in a complete route and box form, a first token that strips to HC (resp. RR)
\* gives a HighwayContractRoute (resp. RuralRoute) address; an OverseasMilitary address
\* comes only from the prefixes CPR, OPC, PSC, UPR and UNIT, with the second token as
\* address_number and the matched prefix as designator.
C10_RouteShapes ==
  Returned =>
    LET prefix == StripPunctuation(unparsed_tokens[1].literal) IN
    /\ (CompleteRouteForm /\ prefix = "HC") => result.type_ = "Highway Contract Route"
    /\ (CompleteRouteForm /\ prefix = "RR") => result.type_ = "Rural Route"
    /\ result.type_ = "Overseas Military" =>
         /\ prefix \in {"CPR", "OPC", "PSC", "UPR", "UNIT"}
         /\ result.address_number = unparsed_tokens[2].literal
         /\ result.address_type = prefix

\* the designators of an overseas military address
valid_address_types == {"CPR", "OPC", "PSC", "UPR", "UNIT"}

\* a direct construction has ended
ConstructionEnded == pc = "done" /\ call.op = "construct"

\* C11: every OverseasMilitary address, returned by parse or constructed directly, has a
\* designator among CPR, OPC, PSC, UPR and UNIT, and the construction of one with any
\* other designator fails with ValueError.
C11_DesignatorInFixedSet ==
  /\ (pc = "done" /\ result.kind = "Address" /\ result.type_ = "Overseas Military") =>
       result.address_type \in valid_address_types
  /\ (ConstructionEnded /\ call.class = "OverseasMilitaryAddress"
        /\ call.own[1][1] \notin valid_address_types) => result.kind = "ValueError"

\* the number of occurrences of the character c in s
CountChar(s, c) == Cardinality({i \in 1..Len(s) : CharAt(s, i) = c})

\* the call failed with the AddressParseError of this description
RaisedParseError(description) ==
  result.kind = "AddressParseError" /\ result.description = description

\* C12: with a valid last line, a delivery address that contains two or more pound signs
\* fails with the AddressParseError for more than one pound sign.
C12_PoundSignsRejected ==
  (Parsed /\ LastLineAccepted /\ CountChar(call.delivery_address, "#") >= 2) =>
    RaisedParseError("only at most one pound sign (#) is permitted in an address")

\* a call of Address.parse has reached the choice of the shape: the last line was
\* accepted and the tokenizer returned at least one token
Classified == Parsed /\ Len(unparsed_tokens) > 0

\* the token literal with its punctuation stripped
Stripped(token) == KeepChars(token.literal, Letters \cup Digits)

\* the rules of the shapes, on the tokens of the delivery address
GeneralDeliveryRule ==
  /\ Len(unparsed_tokens) = 2
  /\ unparsed_tokens[1].literal = "GENERAL"
  /\ unparsed_tokens[2].literal = "DELIVERY"

RouteBoxRule ==
  /\ Len(unparsed_tokens) >= 3
  /\ Stripped(unparsed_tokens[1]) \in {"HC", "RR", "CPR", "OPC", "PSC", "UPR", "UNIT"}
  /\ unparsed_tokens[3].literal = "BOX"

AbbreviatedPOBoxRule ==
  /\ Len(unparsed_tokens) >= 2
  /\ Stripped(unparsed_tokens[1]) = "PO"
  /\ unparsed_tokens[2].literal = "BOX"

SpelledPOBoxRule ==
  /\ Len(unparsed_tokens) >= 3
  /\ Stripped(unparsed_tokens[1]) = "P"
  /\ Stripped(unparsed_tokens[2]) = "O"
  /\ unparsed_tokens[3].literal = "BOX"

\* the first rule, in the order of the shapes, that the tokens satisfy
FirstRule ==
  IF GeneralDeliveryRule THEN "General Delivery"
  ELSE IF RouteBoxRule THEN "Route and Box"
  ELSE IF AbbreviatedPOBoxRule THEN "PO Box abbreviated"
  ELSE IF SpelledPOBoxRule THEN "PO Box spelled out"
  ELSE "Standard Address"

RouteKinds == {"highway contract route", "rural route", "overseas military"}

\* the shapes and the errors that each rule can end in
OutcomesOfRule(rule) ==
  CASE rule = "General Delivery" -> {"General Delivery"}
    [] rule = "Route and Box" ->
         {"Highway Contract Route", "Rural Route", "Overseas Military"}
         \cup {"missing box number in " \o k \o " address" : k \in RouteKinds}
         \cup {"invalid " \o k \o " number, cannot begin with a letter or symbol" :
                 k \in RouteKinds}
    [] rule \in {"PO Box abbreviated", "PO Box spelled out"} ->
         {"Post Office Box", "missing box number in post office box address"}
    [] OTHER ->
         {"Standard Street", "only at most one pound sign (#) is permitted in an address",
          "cannot have pound sign (#) if unit specifier is already present",
          "unexpected token", "missing number for secondary address"}

\* the shape of the address returned, or the description of the error raised
Outcome ==
  CASE result.kind = "Address" -> result.type_
    [] result.kind = "AddressParseError" -> result.description
    [] OTHER -> result.kind

\* C13: the shape parse returns is decided by the first rule that matches, in the order
\* General Delivery, Route and Box, PO Box abbreviated, PO Box spelled out, Standard
\* Address; GENERAL DELIVERY is recognised in any letter case of the input.
C13_OrderedShapeSelection ==
  /\ Classified => Outcome \in OutcomesOfRule(FirstRule)
  /\ (Parsed /\ LastLineAccepted /\ Upper(call.delivery_address) = "GENERAL DELIVERY") =>
       Outcome = "General Delivery"

\* General Delivery written in lower case was returned as a General Delivery address
C13_Witness ==
  /\ Classified
  /\ call.delivery_address # Upper(call.delivery_address)
  /\ Upper(call.delivery_address) = "GENERAL DELIVERY"
  /\ Outcome = "General Delivery"

\* the literal s with a leading hyphen replaced by a zero
ZeroLed(s) == IF CharAt(s, 1) = "-" THEN "0" \o SubSeq(s, 2, Len(s)) ELSE s

\* the result is the PostOfficeBox address of this box number and of the last line
IsPostOfficeBox(box_number) ==
  /\ result.kind = "Address"
  /\ result.type_ = "Post Office Box"
  /\ result.box_number = box_number
  /\ result.city = fields.city
  /\ result.state = fields.state
  /\ result.zipcode = fields.zipcode
  /\ result.zipcode_ext = fields.zipcode_ext
  /\ DOMAIN result = {"kind", "type_", "box_number", "city", "state", "zipcode", "zipcode_ext"}

\* C14: a delivery address whose first token strips to PO followed by BOX, or whose first
\* two tokens strip to P and O followed by BOX, and which has a further token, yields a
\* PostOfficeBox whose box_number is that token's literal with a leading hyphen replaced
\* by 0, whatever tokens follow.
C14_PostOfficeBoxExtraction ==
  /\ (Classified /\ AbbreviatedPOBoxRule /\ Len(unparsed_tokens) >= 3) =>
       IsPostOfficeBox(ZeroLed(unparsed_tokens[3].literal))
  /\ (Classified /\ SpelledPOBoxRule /\ Len(unparsed_tokens) >= 4) =>
       IsPostOfficeBox(ZeroLed(unparsed_tokens[4].literal))
  /\ (Returned /\ call.delivery_address = "PO BOX 15") => result.box_number = "15"
  /\ (Returned /\ call.delivery_address = "P. O. BOX 123B") => result.box_number = "123B"

\* a spelled-out PO box with a box number that begins with a hyphen and with a token
\* after it was returned
C14_Witness ==
  /\ Classified
  /\ SpelledPOBoxRule
  /\ Len(unparsed_tokens) >= 5
  /\ CharAt(unparsed_tokens[4].literal, 1) = "-"
  /\ IsPostOfficeBox("015")

\* the position, as the tokenizer records it, just past the last token
EndOfTokens ==
  LET last == unparsed_tokens[Len(unparsed_tokens)] IN last.index + Len(last.literal)

\* the call failed with a missing-box-number error at the offset index
MissingBoxNumberAt(index) ==
  /\ result.kind = "AddressParseError"
  /\ result.description \in
       {"missing box number in " \o k \o " address" : k \in RouteKinds \cup {"post office box"}}
  /\ result.index = index

\* the call failed with an invalid-route-number error at the offset index
InvalidRouteNumberAt(index) ==
  /\ result.kind = "AddressParseError"
  /\ result.description \in
       {"invalid " \o k \o " number, cannot begin with a letter or symbol" : k \in RouteKinds}
  /\ result.index = index

InstanceReturned == pc = "done" /\ result.kind = "Address"

\* the fields of the base class
BaseFieldNames == {"kind", "type_", "city", "state", "zipcode", "zipcode_ext"}

\* a and b have the same variant tag, city, state, combined ZIP and variant-specific fields
SameFieldValues(a, b) ==
  /\ a.type_ = b.type_
  /\ a.city = b.city
  /\ a.state = b.state
  /\ zipcode_full(a) = zipcode_full(b)
  /\ \A f \in DOMAIN a \ BaseFieldNames : a[f] = b[f]

\* instances to compare the instance returned with: some constructed directly, some
\* returned by parse
PeerInstances ==
  {a \in {Constructed(c) : c \in ConstructCalls} \cup
         {Parse(p[1], p[2]) : p \in TestAddresses} : a.kind = "Address"}

\* equality is derived from the field values
EqualityFromFields ==
  InstanceReturned =>
    \A b \in PeerInstances \cup {result} : AddressEq(result, b) <=> SameFieldValues(result, b)

\* C16: two addresses are equal if and only if they have the same variant tag, city,
\* state, combined ZIP and variant-specific fields, and two equal addresses have equal
\* hashes.
C16_EqualityAndHash ==
  InstanceReturned =>
    \A b \in PeerInstances \cup {result} :
      /\ AddressEq(result, b) <=> SameFieldValues(result, b)
      /\ AddressEq(result, b) =>
           /\ Hash(result).kind = "int"
           /\ Hash(b).kind = "int"
           /\ Hash(result) = Hash(b)

\* the textual fields of the instance a are in upper case
FieldsInUpperCase(a) ==
  \A f \in DOMAIN a \ {"kind", "type_"} :
    IF f \in {"city", "state", "zipcode", "route_number", "box_number", "address_type"}
      THEN a[f] = Upper(a[f])
    ELSE IF f = "address_number" /\ a.type_ = "Overseas Military" THEN a[f] = Upper(a[f])
    ELSE a[f] = None \/ a[f][1] = Upper(a[f][1])

\* the call with every textual argument in upper case
UpperCased(c) ==
  [c EXCEPT !.city = Upper(@), !.state = Upper(@), !.zipcode = Upper(@),
            !.zipcode_ext = IF @ = None THEN None ELSE Some(Upper(@[1])),
            !.own = [i \in 1..Len(@) |-> IF @[i] = None THEN None ELSE Some(Upper(@[i][1]))]]

\* C17: every textual field of every instance is stored in upper case at construction,
\* so two constructions of the same class from values that differ only in letter case
\* give equal instances.
C17_UppercaseAtConstruction ==
  (ConstructionEnded /\ result.kind = "Address") =>
    /\ FieldsInUpperCase(result)
    /\ Constructed(UpperCased(call)).kind = "Address"
    /\ AddressEq(result, Constructed(UpperCased(call)))

\* the elements of the first line of the rendering of a, in USPS order
FirstLineFields(a) ==
  CASE a.type_ = "General Delivery" -> <<"GENERAL", "DELIVERY">>
    [] a.type_ = "Highway Contract Route" -> <<"HC", a.route_number, "BOX", a.box_number>>
    [] a.type_ = "Rural Route" -> <<"RR", a.route_number, "BOX", a.box_number>>
    [] a.type_ = "Overseas Military" ->
         <<a.address_type, a.address_number, "BOX", a.box_number>>
    [] a.type_ = "Post Office Box" -> <<"PO", "BOX", a.box_number>>
    [] a.type_ = "Standard Street" ->
         LET present(x) == IF x = None THEN <<>> ELSE <<x[1]>> IN
         present(a.address_number) \o present(a.predirectional) \o present(a.street_name)
           \o present(a.suffix) \o present(a.postdirectional) \o present(a.address2_type)
           \o present(a.address2)
    [] OTHER -> <<>>

\* the ZIP of the second line: the extension is appended exactly when it is present
RenderedZip(a) ==
  IF a.zipcode_ext = None THEN a.zipcode ELSE a.zipcode \o "-" \o a.zipcode_ext[1]

\* C18: str(A) is two lines separated by one newline: the shape-specific fields in USPS
\* order joined by single spaces, absent optional fields omitted, then CITY, STATE and ZIP
\* joined by single spaces, with -EXT appended to the ZIP exactly when the extension is
\* present.
C18_CanonicalRendering ==
  InstanceReturned =>
    LET lines == Split(AddressStr(result), "\n") IN
    /\ Len(lines) = 2
    /\ lines[1] = Join(FirstLineFields(result), " ")
    /\ lines[2] = Join(<<result.city, result.state, RenderedZip(result)>>, " ")
    /\ (call.op = "parse" /\ call.delivery_address = "123 MAIN ST."
          /\ call.last_line = "SPRINGFIELD IL 12345-6789") =>
         AddressStr(result) = "123 MAIN ST\nSPRINGFIELD IL 12345-6789"

\* a standard address with absent optional fields, a secondary unit and an extension of
\* the ZIP was rendered
C18_Witness ==
  /\ Returned
  /\ result.type_ = "Standard Street"
  /\ result.predirectional = None
  /\ result.address2 # None
  /\ result.zipcode_ext # None
  /\ Len(Split(AddressStr(result), "\n")[1]) > 0

\* the outcome of each call when it runs alone
Alone == [c \in ConcurrentCalls |-> Parse(c.delivery_address, c.last_line)]

\* every call that has ended has the outcome it has when it runs alone
SameAsAlone ==
  \A t \in DOMAIN threads :
    threads[t].pc = "done" => threads[t].result = Alone[threads[t].call]

\* the outcome of a call that has ended, and its arguments, are not modified
NeverModified ==
  \A t \in DOMAIN threads :
    /\ threads'[t].call = threads[t].call
    /\ threads[t].pc = "done" => threads'[t] = threads[t]

\* C19: under every interleaving of concurrent calls of parse, each call returns the
\* address or the error it returns when it runs alone, and no outcome is modified after
\* the call has returned.
C19_NoInterference == [](SameAsAlone) /\ [][NeverModified]_vars

\* two threads have ended, one with an address and one with an error, and the first to
\* end had tokenized a different delivery address after the other had
C19_Witness ==
  /\ threads # <<>>
  /\ threads[1].pc = "done"
  /\ threads[2].pc = "done"
  /\ threads[1].result.kind = "Address"
  /\ threads[2].result.kind = "AddressParseError"
  /\ threads[1].unparsed_tokens # threads[2].unparsed_tokens
  /\ threads[2].unparsed_tokens # <<>>

\* the call is handled by the Standard Address path
StandardPath == Classified /\ FirstRule = "Standard Address"

\* C20: whenever the input is handled by the Standard Address path and one of its
\* tokens, at any position, is of kind Special, parse fails with the unexpected-token
\* error.
C20_SpecialTokensRejected ==
  (StandardPath /\ \E i \in 1..Len(unparsed_tokens) : unparsed_tokens[i].type_ = TYPE_SPECIAL)
    => RaisedParseError("unexpected token")


\* ---- address number ----

\* the kinds of first token from which an address number is taken
NumberKinds == {TYPE_NUMBER, TYPE_FRACTION, TYPE_DECIMAL}

\* the address number that the first tokens spell: the literal of the first token, with an
\* immediately following Fraction token appended after one space
SpelledAddressNumber ==
  IF Len(unparsed_tokens) >= 2 /\ unparsed_tokens[2].type_ = TYPE_FRACTION
    THEN unparsed_tokens[1].literal \o " " \o unparsed_tokens[2].literal
  ELSE unparsed_tokens[1].literal

\* C21: in the Standard Address path the address number of the returned address is present
\* exactly when the first token is a Number, Fraction or Decimal token; it is then that
\* token's literal, with an immediately following Fraction token appended after one space;
\* a first token of any other kind is never consumed as the address number
C21_AddressNumberExtraction ==
  (StandardPath /\ result.kind = "Address") =>
     /\ (result.address_number # None) <=> (unparsed_tokens[1].type_ \in NumberKinds)
     /\ (result.address_number # None) => (result.address_number = Some(SpelledAddressNumber))


\* ---- the scan of the standard path ----

\* the tokens that the scan of the standard path goes through: those left once the address
\* number was taken
ScannedTokens == TakeAddressNumber(unparsed_tokens).unparsed_tokens

\* the locals of parse at the end of the scan
Scanned == ScanTokens(ScannedTokens, call.delivery_address)

\* 0-based indices of the scanned tokens that are pound signs
PoundIndices == {i \in 0..(Len(ScannedTokens) - 1) : ScannedTokens[i + 1].type_ = TYPE_POUND}

\* the token at the 0-based index i of the scan is a secondary-unit indicator word
IsIndicator(i) == StripPeriods(ScannedTokens[i + 1].literal) \in SECONDARY_UNIT_INDICATORS

\* a pound sign immediately follows a secondary-unit indicator token
PoundAfterIndicator == \E i \in PoundIndices : i > 0 /\ IsIndicator(i - 1)

\* the scan meets neither a second pound sign nor a special token
OnlyPoundConflicts ==
  /\ Cardinality(PoundIndices) <= 1
  /\ \A i \in 1..Len(ScannedTokens) : ScannedTokens[i].type_ # TYPE_SPECIAL

\* C22: in the scan of the Standard Address path a pound sign that immediately follows a
\* secondary-unit indicator token fails with the conflicting-unit-specifier error;
\* otherwise, whenever the scanned tokens contain a pound sign, the secondary-unit index at
\* the end of the scan is the index of the pound sign, wherever an indicator word occurs
C22_PoundOverridesIndicator ==
  (StandardPath /\ OnlyPoundConflicts /\ PoundIndices # {}) =>
     IF PoundAfterIndicator
       THEN RaisedParseError("cannot have pound sign (#) if unit specifier is already present")
     ELSE /\ Scanned.raised = None
          /\ Scanned.address2_index # None
          /\ Scanned.address2_index[1] \in PoundIndices


\* ---- secondary unit ----

\* the scan of the standard path ended without an error
ScanPassed == StandardPath /\ Scanned.raised = None

\* the candidate secondary-unit index is at or before the candidate suffix index
UnitBeforeSuffix ==
  /\ Scanned.address2_index # None
  /\ Scanned.suffix_index # None
  /\ Scanned.address2_index[1] <= Scanned.suffix_index[1]

\* a candidate secondary-unit index survives the comparison with the suffix index
UnitSurvives == Scanned.address2_index # None /\ ~UnitBeforeSuffix

\* the literals of the scanned tokens after the 0-based index k, joined by spaces
LiteralsAfter(k) ==
  Join([i \in 1..(Len(ScannedTokens) - k - 1) |-> ScannedTokens[k + 1 + i].literal], " ")

\* C23: a candidate secondary-unit index at or before the candidate suffix index is
\* discarded; a surviving secondary-unit token that is the last token fails with the
\* missing-unit-value error; otherwise the unit type is that token's literal and the unit
\* value the space-join of all tokens after it; so in every StandardAddress that parse
\* returns the unit type is present exactly when the unit value is present and non-empty
C23_SecondaryUnitExtraction ==
  /\ ScanPassed =>
       IF ~UnitSurvives
         THEN /\ result.kind = "Address"
              /\ result.address2_type = None
              /\ result.address2 = None
       ELSE IF Scanned.address2_index[1] = Len(ScannedTokens) - 1
         THEN RaisedParseError("missing number for secondary address")
       ELSE /\ result.kind = "Address"
            /\ result.address2_type = Some(ScannedTokens[Scanned.address2_index[1] + 1].literal)
            /\ result.address2 = Some(LiteralsAfter(Scanned.address2_index[1]))
  /\ (StandardPath /\ result.kind = "Address") =>
       ((result.address2_type # None) <=> (result.address2 # None /\ result.address2 # Some("")))

\* an indicator word before the suffix was discarded
UnitDiscarded == ScanPassed /\ UnitBeforeSuffix /\ result.kind = "Address"

\* a secondary unit of more than one token was extracted after the suffix
C23_Witness ==
  /\ ScanPassed
  /\ UnitSurvives
  /\ Scanned.suffix_index # None
  /\ result.kind = "Address"
  /\ Scanned.address2_index[1] < Len(ScannedTokens) - 2


\* ---- street suffix ----

\* parse returned a StandardAddress
StandardReturned == StandardPath /\ result.kind = "Address"

\* the scanned tokens without the secondary unit
WithoutUnit ==
  IF UnitSurvives THEN SubSeq(ScannedTokens, 1, Scanned.address2_index[1]) ELSE ScannedTokens

\* the token is a direction, periods apart
IsDirection(token) == StripPeriods(token.literal) \in DIRECTIONS_LIST

\* the token matches the street-suffix table, periods apart
IsSuffix(token) == StripPeriods(token.literal) \in STREET_SUFFIXES

\* the tokens that remain after the removal of the address number, the secondary unit and
\* the postdirectional
Remaining ==
  IF Len(WithoutUnit) > 0 /\ IsDirection(WithoutUnit[Len(WithoutUnit)])
    THEN SubSeq(WithoutUnit, 1, Len(WithoutUnit) - 1)
  ELSE WithoutUnit

\* the last remaining token matches the street-suffix table
SuffixIsLast == Len(Remaining) > 0 /\ IsSuffix(Remaining[Len(Remaining)])

\* C24: in every StandardAddress that parse returns the suffix is present if and only if
\* the last token remaining after the removal of the address number, the secondary unit
\* and the postdirectional matches the street-suffix table; a suffix-table word followed
\* by other street-name words stays inside street_name and the address has no suffix; and
\* the lookup of the suffix token never indexes outside the remaining tokens
C24_SuffixIsTerminal ==
  /\ StandardReturned =>
       /\ (result.suffix # None) <=> SuffixIsLast
       /\ \A i \in 1..(Len(Remaining) - 1) :
            (IsSuffix(Remaining[i]) /\ ~SuffixIsLast) =>
               /\ result.suffix = None
               /\ IsSubstring(Remaining[i].literal, result.street_name[1])
  /\ ScanPassed => result.kind # "IndexError"

\* a suffix-table word was followed by another street-name word and no suffix was returned
C24_Witness ==
  /\ StandardReturned
  /\ ~SuffixIsLast
  /\ \E i \in 1..(Len(Remaining) - 1) : IsSuffix(Remaining[i])
  /\ result.suffix = None


\* ---- directionals ----

\* the eight direction codes
DirectionCodes == {"N", "E", "S", "W", "NE", "NW", "SE", "SW"}

\* the directional field is absent or one of the eight codes
AbsentOrCode(field) == field = None \/ field[1] \in DirectionCodes

\* C25: in every StandardAddress that parse returns the predirectional and the
\* postdirectional are each absent or one of the eight codes N, E, S, W, NE, NW, SE, SW;
\* a predirectional is taken only when a token remains for the street name (more than one
\* remaining token without a suffix, a suffix index of at least 2 with one), so that a
\* predirectional comes with a non-empty street_name
C25_DirectionalFields ==
  StandardReturned =>
     /\ AbsentOrCode(result.predirectional)
     /\ AbsentOrCode(result.postdirectional)
     /\ (result.predirectional # None) =>
          /\ result.street_name # None
          /\ result.street_name # Some("")
          /\ IsDirection(Remaining[1])
          /\ IF result.suffix = None THEN Len(Remaining) > 1 ELSE Len(Remaining) - 1 >= 2

\* a spelled-out or dotted predirectional was returned as its code
C25_Witness ==
  /\ StandardReturned
  /\ result.predirectional # None
  /\ result.predirectional # Some(Remaining[1].literal)
  /\ result.postdirectional # None


\* ---- the tokenizer, step by step ----

\* the character that the next iteration of the tokenizer reads
NextChar == CharAt(lexer.delivery_address, lexer.locals.current_position + 1)

\* the kind of an open token of kind k once the character c was appended to it, by the
\* lattice: Number to Decimal on ".", to Fraction on "/", to NumberSuffixed on any other
\* non-digit; Decimal and Fraction to NumberSuffixed on any non-digit; no other change
Forward(k, c) ==
  IF c \in Digits THEN k
  ELSE IF k = TYPE_NUMBER
    THEN (IF c = "." THEN TYPE_DECIMAL ELSE IF c = "/" THEN TYPE_FRACTION
          ELSE TYPE_NUMBERSUFFIXED)
  ELSE IF k \in {TYPE_DECIMAL, TYPE_FRACTION} THEN TYPE_NUMBERSUFFIXED
  ELSE k

\* a step of the tokenizer that leaves the open token open: a character was appended
OpenTokenStep ==
  /\ lexer.locals.current_token # None
  /\ lexer'.locals.current_token # None
  /\ lexer'.pc = "loop"

\* the kind of the open token moves by the lattice, on the character read
KindMovesForward ==
  OpenTokenStep =>
     /\ lexer'.locals.current_token[1].type_ = Forward(lexer.locals.current_token[1].type_, NextChar)
     /\ lexer'.locals.current_token[1].literal = lexer.locals.current_token[1].literal \o NextChar
     /\ lexer'.locals.current_token[1].index = lexer.locals.current_token[1].index

\* the closed tokens stay as they were, and a token is closed as it was when open
ClosedTokensKept ==
  LET before == lexer.locals.output_tokens
      after == lexer'.locals.output_tokens
  IN
  /\ Len(after) >= Len(before)
  /\ SubSeq(after, 1, Len(before)) = before
  /\ (lexer.locals.current_token # None /\ Len(after) > Len(before)) =>
        after[Len(before) + 1] = lexer.locals.current_token[1]

\* a pound sign is never the open token
PoundNeverOpen ==
  lexer'.locals.current_token # None => lexer'.locals.current_token[1].type_ # TYPE_POUND

\* C26: during any scan of the tokenizer the kind of the open token changes only forward:
\* Number becomes Decimal on ".", Fraction on "/", NumberSuffixed on any other non-digit;
\* Decimal and Fraction become NumberSuffixed on any non-digit; NumberSuffixed, Word,
\* Special and Pound never change kind; and no token's kind or literal changes after the
\* token has been closed
C26_KindLattice == [][KindMovesForward /\ ClosedTokensKept /\ PoundNeverOpen]_vars

\* the tokenizer returned, after a closed token, a token that went from Number through
\* Decimal or Fraction to NumberSuffixed
C26_Witness ==
  /\ lexer.pc = "returned"
  /\ \E i \in 2..Len(lexer.locals.output_tokens) :
       /\ lexer.locals.output_tokens[i].type_ = TYPE_NUMBERSUFFIXED
       /\ \/ Contains(lexer.locals.output_tokens[i].literal, ".")
          \/ Contains(lexer.locals.output_tokens[i].literal, "/")


\* the tokenizer returned the tokens of the string d
Tokenized(d) == lexer.pc = "returned" /\ lexer.delivery_address = d

\* C27 (as stated): tokenizing "ST.-" yields two tokens, the Word token "ST." followed by
\* the Special token "-"
C27_HyphenOpensToken ==
  Tokenized("ST.-") =>
     lexer.locals.output_tokens =
        <<AddressToken("ST.", TYPE_WORD, 0), AddressToken("-", TYPE_SPECIAL, 3)>>

\* C27 (amended): tokenizing "ST.-" yields one token, the Word token "ST.-": neither a "."
\* nor a "-" closes the open token; a "-" opens a Special token only when no token is
\* open, as in "ST. -"
C27_HyphenStaysInToken ==
  /\ Tokenized("ST.-") =>
       lexer.locals.output_tokens = <<AddressToken("ST.-", TYPE_WORD, 0)>>
  /\ Tokenized("ST. -") =>
       lexer.locals.output_tokens =
          <<AddressToken("ST.", TYPE_WORD, 0), AddressToken("-", TYPE_SPECIAL, 4)>>

\* the tokenizer returned the tokens of "ST.-"
C27_Witness == Tokenized("ST.-") /\ Len(lexer.locals.output_tokens) = 1


\* ---- positions ----

\* the token's literal is the upper-case form of the characters of the string d that
\* start at the token's position
AtItsPosition(token, d) ==
  /\ token.index + Len(token.literal) <= Len(d)
  /\ Upper(SubSeq(d, token.index + 1, token.index + Len(token.literal))) = token.literal

\* the structural errors that are raised at the position of a token
TokenErrors ==
  {"unexpected token", "only at most one pound sign (#) is permitted in an address",
   "cannot have pound sign (#) if unit specifier is already present"}

\* C28: for every call Address.parse(d, l) the tokens are emitted in source order, each
\* with a position p such that its literal is the upper-case form of the characters of d
\* that start at offset p, and the offset of a structural error raised for a token is such
\* a position in d, also when d has leading whitespace
C28_PositionsInOriginalString ==
  (call.op = "parse" /\ pc \in {"tokens", "done"}) =>
     /\ \A i \in 1..Len(unparsed_tokens) : AtItsPosition(unparsed_tokens[i], call.delivery_address)
     /\ \A i \in 1..(Len(unparsed_tokens) - 1) :
          unparsed_tokens[i].index < unparsed_tokens[i + 1].index
     /\ (pc = "done" /\ result.kind = "AddressParseError" /\ result.description \in TokenErrors) =>
          \E i \in 1..Len(unparsed_tokens) :
             /\ unparsed_tokens[i].index = result.index
             /\ AtItsPosition(unparsed_tokens[i], call.delivery_address)


\* ---- order of validation ----

\* the delivery address of the call holds no character of a token and no line break
\* once stripped: the tokenizer returns no token for it
YieldsNoTokens ==
  \A i \in 1..Len(LexInput(call.delivery_address)) :
     CharAt(LexInput(call.delivery_address), i) \notin TokenChars \cup {"#", "\n"}

\* C29: Address.parse validates the last line before it looks at the delivery address:
\* the tokenizer is reached only with an accepted last line; with an invalid last line the
\* call fails with the validation error whatever the delivery address is (empty, with a
\* line break, or malformed), no token having been made; only with a valid last line does
\* a delivery address that yields no tokens fail with the no-tokens error at offset 0
C29_LastLineValidatedFirst ==
  call.op = "parse" =>
     /\ pc \in {"lex", "tokens"} => (LastLineAccepted /\ result = Pending)
     /\ (pc = "done" /\ ~LastLineAccepted) =>
          (result.kind = "ValueError" /\ unparsed_tokens = <<>>)
     /\ (pc = "done" /\ YieldsNoTokens) =>
          IF LastLineAccepted
            THEN result = AddressParseError("no valid tokens found", call.delivery_address, 0)
            ELSE result.kind = "ValueError"
     /\ (pc = "done" /\ RaisedParseError("no valid tokens found")) =>
          (LastLineAccepted /\ YieldsNoTokens /\ result.index = 0)

\* a call with an invalid last line and a delivery address that holds a line break ended
C29_Witness ==
  /\ Parsed
  /\ ~LastLineAccepted
  /\ Contains(call.delivery_address, "\n")
  /\ result.kind = "ValueError"

\* a call with a valid last line and a delivery address without tokens ended
NoTokensRaised == Parsed /\ LastLineAccepted /\ YieldsNoTokens
===============================================================================
